---- MODULE Spec2Model ----
(***************************************************************************)
(* A model of arcgis-utils: URL normalisation (pkg/arcgis), service layer  *)
(* discovery, layer selection and the concurrent per-layer pipeline of     *)
(* main.go.                                                                *)
(*                                                                         *)
(* Strings are sequences of tokens.  A token is either one of the URL      *)
(* delimiters ":", "/", "?", "&", "=", "#" or a word, a run of characters  *)
(* that holds no delimiter and needs no percent-escaping.  Two strings are *)
(* equal exactly when their token sequences are equal.                     *)
(***************************************************************************)
EXTENDS Integers, Sequences, FiniteSets, TLC

VARIABLES
    rawURL,          \* NormalizeArcGISURL: the input of the call under study
    once,            \* NormalizeArcGISURL(rawURL)
    twice,           \* NormalizeArcGISURL(once)
    npc              \* position of the normalisation driver

urlVars == <<rawURL, once, twice, npc>>

VARIABLES
    response,        \* FetchServiceLayers: the reply of the server to the metadata request
    serviceType,     \* FetchServiceLayers: the serviceType argument
    fetched,         \* FetchServiceLayers: the returned (layers, error) and the slice memory
    fpc              \* position of the discovery call

fetchVars == <<response, serviceType, fetched, fpc>>

VARIABLES
    candidates,      \* selectAndAddLayers: the availableLayers argument
    operatorInput,   \* selectAndAddLayers: the line read from standard input
    workAuto,        \* layersToProcess of the run with -select-all
    workAsked,       \* layersToProcess of the interactive run
    spc              \* position of the selection driver

selectVars == <<candidates, operatorInput, workAuto, workAsked, spc>>

VARIABLES
    inputURL,        \* main: the -url argument
    flags,           \* main: the other command-line flags and the operator's line
    layersToProcess, \* the work set: unique key -> AvailableLayerInfo
    mainPC,          \* position of main: "start", "dispatch", "exited"
    processedKeys,   \* main: the keys the dispatch loop has visited
    wg,              \* main: the sync.WaitGroup counter
    tasks,           \* the goroutines of the dispatch loop: key -> task record
    successCount,    \* atomic counter of main
    skippedCount,    \* atomic counter of main
    errorCount,      \* atomic counter of main
    files,           \* the output directory: path -> content
    exitStatus,      \* the exit status of the process; Running before it ends
    summary          \* the three numbers of the summary line; <<>> before it is printed

runVars == <<inputURL, flags, layersToProcess, mainPC, processedKeys, wg, tasks,
             successCount, skippedCount, errorCount, files, exitStatus, summary>>

VARIABLES
    geometry,        \* geometryToWKT / ConvertToGeoJSON: the geometry of one feature
    converted,       \* what the two functions made of it
    gpc              \* position of the geometry driver

geomVars == <<geometry, converted, gpc>>

VARIABLES
    inputFeatures,   \* the features argument of the three converters
    exported,        \* the GeoJSON collection, the CSV records and the text blocks
    epc              \* position of the export driver

exportVars == <<inputFeatures, exported, epc>>

VARIABLES
    queryReply,      \* FetchFeatures: the reply of the server to the feature query
    queryFeatures,   \* the features of that reply
    drawing,         \* the renderer of the layer metadata and the two symbol flags
    resolved,        \* FetchFeatures' result, then the features with their symbols
    qpc              \* position of the query driver

queryVars == <<queryReply, queryFeatures, drawing, resolved, qpc>>

convVars == <<geomVars, exportVars, queryVars>>

VARIABLES
    webMap,          \* handleWebMap: the operational layers of the web map
    servers,         \* the replies of the servers to the requests of the walk
    walked,          \* what the walk left: the descriptors, the memory, a panic
    wpc              \* position of the walk driver

walkVars == <<webMap, servers, walked, wpc>>

VARIABLES
    geoJSON,         \* ConvertGeoJSONToKML / ToKMZ: the collection passed in
    documents,       \* the documents the encoders returned, in call order
    kpc              \* position of the encoder driver

kmlVars == <<geoJSON, documents, kpc>>

moreVars == <<walkVars, kmlVars>>

-----------------------------------------------------------------------------
(* Bounds of the model *)

MaxSegs == 2          \* free path segments generated after the service prefix
MaxSlashes == 2       \* trailing slashes generated after the last path segment
MaxLayers == 2        \* entries of a metadata document's layers array
MaxTables == 1        \* entries of a metadata document's tables array
MaxCandidates == 2    \* layers offered to selectAndAddLayers

-----------------------------------------------------------------------------
(* Token strings *)

Delims == {":", "/", "?", "&", "=", "#"}

\* strings.ToLower on a word
ToLowerWord(w) ==
    CASE w = "ArcGIS" -> "arcgis"
      [] w = "ARCGIS" -> "arcgis"
      [] w = "Rest" -> "rest"
      [] w = "SERVICES" -> "services"
      [] w = "FeatureServer" -> "featureserver"
      [] w = "MapServer" -> "mapserver"
      [] w = "MAPSERVER" -> "mapserver"
      [] w = "HTTP" -> "http"
      [] w = "Svc" -> "svc"
      [] w = "F" -> "f"
      [] w = "ALL" -> "all"
      [] w = "All" -> "all"
      [] OTHER -> w

\* strings.ToLower on a string
ToLower(s) == [i \in 1..Len(s) |-> ToLowerWord(s[i])]

\* words that hold the character "."
HasDot(w) == w \in {"h.com"}

\* words made of decimal digits only (strconv.Atoi succeeds on them)
IsNumber(w) == w \in {"0", "1", "7", "8080"}

\* words url.getScheme accepts as a scheme: a letter, then letters, digits, + - .
IsSchemeWord(w) == w \notin Delims /\ ~IsNumber(w)

\* byte order of the words used as query keys (sort.Strings)
KeyRank(k) ==
    CASE k = <<>> -> 0
      [] k = <<"F">> -> 1
      [] k = <<"f">> -> 2
      [] k = <<"token">> -> 3
      [] OTHER -> 4

IndexOf(s, t) ==
    IF \E i \in 1..Len(s) : s[i] = t
    THEN CHOOSE i \in 1..Len(s) : s[i] = t /\ \A j \in 1..(i-1) : s[j] # t
    ELSE 0

Count(s, t) == Cardinality({i \in 1..Len(s) : s[i] = t})

HasPrefix(s, p) == Len(s) >= Len(p) /\ SubSeq(s, 1, Len(p)) = p

HasSuffix(s, p) == Len(s) >= Len(p) /\ SubSeq(s, Len(s) - Len(p) + 1, Len(s)) = p

From(s, i) == SubSeq(s, i, Len(s))

\* strings.Contains(s, sub) for a sub that ends at a word boundary of s
Contains(s, sub) ==
    \E i \in 1..(Len(s) - Len(sub) + 1) : SubSeq(s, i, i + Len(sub) - 1) = sub

RECURSIVE TrimLeft(_, _)
TrimLeft(s, t) == IF s # <<>> /\ Head(s) = t THEN TrimLeft(Tail(s), t) ELSE s

RECURSIVE TrimRight(_, _)
TrimRight(s, t) ==
    IF s # <<>> /\ s[Len(s)] = t THEN TrimRight(SubSeq(s, 1, Len(s) - 1), t) ELSE s

\* strings.Trim(s, t)
Trim(s, t) == TrimRight(TrimLeft(s, t), t)

\* strings.Split(s, t): the pieces between the occurrences of t, each a string
RECURSIVE Split(_, _)
Split(s, t) ==
    LET i == IndexOf(s, t)
    IN IF i = 0 THEN <<s>> ELSE <<SubSeq(s, 1, i - 1)>> \o Split(From(s, i + 1), t)

\* strings.Join(parts, t)
RECURSIVE Join(_, _)
Join(parts, t) ==
    IF parts = <<>> THEN <<>>
    ELSE IF Len(parts) = 1 THEN parts[1]
    ELSE parts[1] \o <<t>> \o Join(Tail(parts), t)

-----------------------------------------------------------------------------
(* net/url as NormalizeArcGISURL uses it.  The words of the model need no   *)
(* percent-escaping, so escape and unescape leave them as they are and     *)
(* RawPath stays empty.                                                    *)

NoURL == [ok |-> FALSE, Scheme |-> <<>>, Opaque |-> <<>>, Host |-> <<>>,
          Path |-> <<>>, OmitHost |-> FALSE, ForceQuery |-> FALSE,
          RawQuery |-> <<>>, Fragment |-> <<>>]

\* url.getScheme: [ok, scheme, rest]
getScheme(s) ==
    IF s = <<>> THEN [ok |-> TRUE, scheme |-> <<>>, rest |-> s]
    ELSE IF s[1] = ":" THEN [ok |-> FALSE, scheme |-> <<>>, rest |-> s]
    ELSE IF IsSchemeWord(s[1]) /\ Len(s) >= 2 /\ s[2] = ":"
         THEN [ok |-> TRUE, scheme |-> <<s[1]>>, rest |-> From(s, 3)]
    ELSE [ok |-> TRUE, scheme |-> <<>>, rest |-> s]

\* the authority and path of "//authority/path"
parseAuthorityAndPath(rest) ==
    LET a == From(rest, 3)
        i == IndexOf(a, "/")
    IN IF i = 0 THEN [Host |-> a, Path |-> <<>>]
       ELSE [Host |-> SubSeq(a, 1, i - 1), Path |-> From(a, i)]

\* url.parseHost: a port, when there is one, is a number
validHost(h) ==
    LET i == IF IndexOf(h, ":") = 0 THEN 0
             ELSE CHOOSE k \in 1..Len(h) : h[k] = ":" /\ \A j \in (k+1)..Len(h) : h[j] # ":"
    IN i = 0 \/ (From(h, i + 1) = <<>>) \/ (Len(h) = i + 1 /\ IsNumber(h[i + 1]))

\* url.Parse
urlParse(raw) ==
    LET h == IndexOf(raw, "#")
        u == IF h = 0 THEN raw ELSE SubSeq(raw, 1, h - 1)
        frag == IF h = 0 THEN <<>> ELSE From(raw, h + 1)
        gs == getScheme(u)
        scheme == ToLower(gs.scheme)
        force == HasSuffix(gs.rest, <<"?">>) /\ Count(gs.rest, "?") = 1
        q == IndexOf(gs.rest, "?")
        rest == IF force THEN SubSeq(gs.rest, 1, Len(gs.rest) - 1)
                ELSE IF q = 0 THEN gs.rest ELSE SubSeq(gs.rest, 1, q - 1)
        query == IF force \/ q = 0 THEN <<>> ELSE From(gs.rest, q + 1)
        base == [NoURL EXCEPT !.ok = TRUE, !.Scheme = scheme, !.ForceQuery = force,
                              !.RawQuery = query, !.Fragment = frag]
        seg1 == Split(rest, "/")[1]
    IN IF ~gs.ok THEN NoURL
       ELSE IF ~HasPrefix(rest, <<"/">>) /\ scheme # <<>>
            THEN [base EXCEPT !.Opaque = rest]
       ELSE IF ~HasPrefix(rest, <<"/">>) /\ IndexOf(seg1, ":") # 0
            THEN NoURL
       ELSE IF (scheme # <<>> \/ ~HasPrefix(rest, <<"/", "/", "/">>))
               /\ HasPrefix(rest, <<"/", "/">>)
            THEN LET ap == parseAuthorityAndPath(rest)
                 IN IF validHost(ap.Host)
                    THEN [base EXCEPT !.Host = ap.Host, !.Path = ap.Path]
                    ELSE NoURL
       ELSE IF scheme # <<>> /\ HasPrefix(rest, <<"/">>)
            THEN [base EXCEPT !.OmitHost = TRUE, !.Path = rest]
       ELSE [base EXCEPT !.Path = rest]

\* (*URL).String
urlString(u) ==
    LET sch == IF u.Scheme # <<>> THEN u.Scheme \o <<":">> ELSE <<>>
        auth == IF u.Scheme # <<>> \/ u.Host # <<>>
                THEN IF u.OmitHost /\ u.Host = <<>> THEN <<>>
                     ELSE (IF u.Host # <<>> \/ u.Path # <<>> THEN <<"/", "/">> ELSE <<>>)
                          \o u.Host
                ELSE <<>>
        sep == IF u.Path # <<>> /\ u.Path[1] # "/" /\ u.Host # <<>> THEN <<"/">> ELSE <<>>
        dot == IF sch \o auth \o sep = <<>> /\ IndexOf(Split(u.Path, "/")[1], ":") # 0
               THEN <<"./">> ELSE <<>>
        body == IF u.Opaque # <<>> THEN u.Opaque ELSE auth \o sep \o dot \o u.Path
        qry == IF u.ForceQuery \/ u.RawQuery # <<>> THEN <<"?">> \o u.RawQuery ELSE <<>>
        frg == IF u.Fragment # <<>> THEN <<"#">> \o u.Fragment ELSE <<>>
    IN sch \o body \o qry \o frg

\* url.ParseQuery as (*URL).Query uses it: the key=value pairs in order; a pair
\* is [key, value], each a string
parseQuery(rawQuery) ==
    LET pieces == Split(rawQuery, "&")
        Pair(p) == LET e == IndexOf(p, "=")
                   IN IF e = 0 THEN [key |-> p, value |-> <<>>]
                      ELSE [key |-> SubSeq(p, 1, e - 1), value |-> From(p, e + 1)]
    IN [i \in 1..Len(SelectSeq(pieces, LAMBDA p : p # <<>>)) |->
            Pair(SelectSeq(pieces, LAMBDA p : p # <<>>)[i])]

\* Values.Del(key)
queryDel(pairs, key) == SelectSeq(pairs, LAMBDA p : p.key # key)

\* the keys of pairs, sorted as sort.Strings sorts them
RECURSIVE sortedKeys(_)
sortedKeys(K) ==
    IF K = {} THEN <<>>
    ELSE LET m == CHOOSE k \in K : \A o \in K : KeyRank(k) <= KeyRank(o)
         IN <<m>> \o sortedKeys(K \ {m})

\* Values.Encode: keys sorted, the values of one key in their order
queryEncode(pairs) ==
    LET keys == sortedKeys({pairs[i].key : i \in 1..Len(pairs)})
        OfKey(k) == SelectSeq(pairs, LAMBDA p : p.key = k)
        Enc(k) == Join([i \in 1..Len(OfKey(k)) |-> k \o <<"=">> \o OfKey(k)[i].value], "&")
    IN Join([i \in 1..Len(keys) |-> Enc(keys[i])], "&")

-----------------------------------------------------------------------------
(* pkg/arcgis: URL helpers *)

\* a splitPath that trims the leading slashes only
splitPathLeadingOnly(path) == Split(TrimLeft(path, "/"), "/")

\* the path segments: strings.Split(strings.Trim(u.Path, "/"), "/")
splitPath(path) == Split(Trim(path, "/"), "/")

\* the canonical casing of one path segment (a string)
canonicalPart(part) ==
    LET lowerPart == ToLower(part)
    IN IF lowerPart = <<"arcgis">> THEN <<"ArcGIS">>
       ELSE IF lowerPart = <<"rest">> THEN <<"rest">>
       ELSE IF lowerPart = <<"services">> THEN <<"services">>
       ELSE IF lowerPart = <<"featureserver">> THEN <<"FeatureServer">>
       ELSE IF lowerPart = <<"mapserver">> THEN <<"MapServer">>
       ELSE part

\* whether the last path segment names a base service (isBaseServiceURL)
isBaseServiceURL(pathParts) ==
    LET lowerPathEnd == IF Len(pathParts) > 0 THEN ToLower(pathParts[Len(pathParts)])
                        ELSE <<>>
    IN lowerPathEnd = <<"mapserver">> \/ lowerPathEnd = <<"featureserver">>

\* a trailingSlash that removes a trailing slash and never adds one
trailingSlashStripOnly(path, pathParts) ==
    IF Len(path) > 1 /\ HasSuffix(path, <<"/">>)
    THEN SubSeq(path, 1, Len(path) - 1) ELSE path

\* the path with a trailing slash forced on a base service URL, removed otherwise
trailingSlash(path, pathParts) ==
    IF isBaseServiceURL(pathParts)
    THEN IF ~HasSuffix(path, <<"/">>) THEN path \o <<"/">> ELSE path
    ELSE IF Len(path) > 1 /\ HasSuffix(path, <<"/">>)
         THEN SubSeq(path, 1, Len(path) - 1) ELSE path

isArcGISService(raw) ==
    LET lowerURL == ToLower(raw)
    IN Contains(lowerURL, <<"/", "rest", "/", "services">>)
       \/ Contains(lowerURL, <<"/", "arcgis", "/", "rest">>)

\* IsArcGISOnlineItemURL
IsArcGISOnlineItemURL(raw) ==
    LET lowerURL == ToLower(raw)
    IN \E i \in 1..Len(lowerURL) :
          /\ lowerURL[i] \in {"arcgis.com", "www.arcgis.com"}
          /\ HasPrefix(From(lowerURL, i + 1), <<"/", "home", "/", "item.html">>)

\* NormalizeArcGISURL after url.Parse has given u0
normalizeParsed(raw, u0) ==
    IF ~isArcGISService(raw) /\ ~IsArcGISOnlineItemURL(raw)
    THEN IF u0.ok /\ u0.Scheme = <<>>
            /\ (\E i \in 1..Len(raw) : HasDot(raw[i])) /\ ~HasPrefix(raw, <<"/">>)
         THEN <<"https", ":", "/", "/">> \o raw
         ELSE raw
    ELSE IF ~u0.ok THEN raw
    ELSE LET u1 == IF u0.Scheme = <<>> THEN [u0 EXCEPT !.Scheme = <<"https">>] ELSE u0
         IN IF ~isArcGISService(raw) THEN urlString(u1)
            ELSE LET split == splitPath(u1.Path)
                     pathParts == [i \in 1..Len(split) |-> canonicalPart(split[i])]
                     joined == IF HasPrefix(u1.Path, <<"/">>)
                               THEN <<"/">> \o Join(pathParts, "/")
                               ELSE Join(pathParts, "/")
                     q == queryDel(parseQuery(u1.RawQuery), <<"f">>)
                 IN urlString([u1 EXCEPT !.Path = trailingSlash(joined, pathParts),
                                         !.RawQuery = queryEncode(q)])

\* NormalizeArcGISURL
NormalizeArcGISURL(raw) == normalizeParsed(raw, urlParse(raw))

\* the scheme test of IsValidHTTPURL on the result of url.Parse
isHTTP(u) == u.ok /\ (u.Scheme = <<"http">> \/ u.Scheme = <<"https">>)

\* IsValidHTTPURL
IsValidHTTPURL(raw) == isHTTP(urlParse(raw))

-----------------------------------------------------------------------------
(* Go slices of strings.  A slice is a window [arr, len, cap] on a backing  *)
(* array of the memory mem (a sequence of arrays); append writes in place  *)
(* when the capacity allows and moves to a new array, of twice the         *)
(* capacity, when it does not.                                             *)

NoName == ""

nilSlice == [arr |-> 0, len |-> 0, cap |-> 0]

\* the strings a slice holds
sliceValue(mem, sl) == IF sl.len = 0 THEN <<>> ELSE SubSeq(mem[sl.arr], 1, sl.len)

\* a slice literal []string{...}: [slice, mem]
sliceLiteral(mem, elems) ==
    IF elems = <<>> THEN [slice |-> nilSlice, mem |-> mem]
    ELSE [slice |-> [arr |-> Len(mem) + 1, len |-> Len(elems), cap |-> Len(elems)],
          mem |-> Append(mem, elems)]

\* the capacity runtime.growslice chooses for one more element (below 256)
grownCap(oldCap) == IF oldCap = 0 THEN 1 ELSE 2 * oldCap

\* append(sl, x): [slice, mem]
sliceAppend(mem, sl, x) ==
    IF sl.len < sl.cap
    THEN [slice |-> [sl EXCEPT !.len = sl.len + 1],
          mem |-> [mem EXCEPT ![sl.arr][sl.len + 1] = x]]
    ELSE LET c == grownCap(sl.cap)
             fresh == [i \in 1..c |-> IF i <= sl.len THEN mem[sl.arr][i]
                                      ELSE IF i = sl.len + 1 THEN x ELSE NoName]
         IN [slice |-> [arr |-> Len(mem) + 1, len |-> sl.len + 1, cap |-> c],
             mem |-> Append(mem, fresh)]

-----------------------------------------------------------------------------
(* pkg/arcgis: service metadata and FetchServiceLayers *)

\* strconv.Itoa on the layer numbers of the model
Itoa(n) == CASE n = 0 -> "0" [] n = 1 -> "1" [] n = 2 -> "2" [] n = 3 -> "3"
             [] n = 4 -> "4" [] n = 5 -> "5" [] n = 6 -> "6" [] n = 7 -> "7"
             [] n = -1 -> "-1" [] OTHER -> "n"

\* encoding/json decoding a JSON value into a Go interface{} without
\* Decoder.UseNumber: a number arrives as float64, a string as string
decodeInterface(j) ==
    CASE j.kind = "number" -> [gotype |-> "float64", val |-> j.val]
      [] j.kind = "string" -> [gotype |-> "string", val |-> j.val]
      [] OTHER -> [gotype |-> "nil", val |-> 0]

\* json decoding of one entry of "layers"/"tables" into Layer
decodeLayer(j) == [ID |-> decodeInterface(j.id), Name |-> j.name, Type |-> j.type]

\* FetchAndDecode into FeatureServerMetadata: [err, Layers, Tables, Error]
FetchAndDecodeFeatureServer(resp) ==
    IF resp.status # "ok"
    THEN [err |-> TRUE, Layers |-> <<>>, Tables |-> <<>>, Error |-> FALSE]
    ELSE [err |-> FALSE,
          Layers |-> [i \in 1..Len(resp.doc.layers) |-> decodeLayer(resp.doc.layers[i])],
          Tables |-> [i \in 1..Len(resp.doc.tables) |-> decodeLayer(resp.doc.tables[i])],
          Error |-> resp.doc.error]

\* FetchAndDecode into MapServiceMetadata: an entry whose id is not a JSON
\* number cannot be stored in the int field, and Decode fails
FetchAndDecodeMapServer(resp) ==
    IF resp.status # "ok"
       \/ \E i \in 1..Len(resp.doc.layers) : resp.doc.layers[i].id.kind # "number"
    THEN [err |-> TRUE, Layers |-> <<>>, Error |-> FALSE]
    ELSE [err |-> FALSE,
          Layers |-> [i \in 1..Len(resp.doc.layers) |->
                        [ID |-> resp.doc.layers[i].id.val,
                         Name |-> resp.doc.layers[i].name,
                         Type |-> resp.doc.layers[i].type,
                         ParentLayerId |-> resp.doc.layers[i].parentLayerId]],
          Error |-> resp.doc.error]

\* the type assertion layer.ID.(json.Number): [ok, str]
assertJSONNumber(id) ==
    IF id.gotype = "json.Number" THEN [ok |-> TRUE, str |-> Itoa(id.val)]
    ELSE [ok |-> FALSE, str |-> ""]

AvailableLayerInfo(id, name, type, serviceURL, parentPath) ==
    [ID |-> id, Name |-> name, Type |-> type, ServiceURL |-> serviceURL,
     ParentPath |-> parentPath, IsFeatureLayer |-> TRUE]

\* the FeatureServer loop over metadata.Layers
RECURSIVE featureServerLayers(_, _)
featureServerLayers(layers, serviceURL) ==
    IF layers = <<>> THEN <<>>
    ELSE LET layer == Head(layers)
             n == assertJSONNumber(layer.ID)
         IN IF ~n.ok THEN featureServerLayers(Tail(layers), serviceURL)
            ELSE <<AvailableLayerInfo(n.str, layer.Name, layer.Type, serviceURL, nilSlice)>>
                 \o featureServerLayers(Tail(layers), serviceURL)

\* layerMap: the last entry with an ID wins
layerMapOf(layers) ==
    [id \in {layers[i].ID : i \in 1..Len(layers)} |->
        layers[CHOOSE i \in 1..Len(layers) :
                  layers[i].ID = id /\ \A j \in (i+1)..Len(layers) : layers[j].ID # id]]

\* a memo table that marks no layer as being built
markNothing(hier, layerID) == hier

\* layerHierarchy[layerID] = []string{}: the layer is marked before its
\* parent is asked for
markInProgress(hier, layerID) == (layerID :> nilSlice) @@ hier

\* buildPath, with the memo table layerHierarchy and the number of nested
\* calls still followed: [path, hier, mem, pending].  pending says that a
\* call was cut at that nesting before it returned.
RECURSIVE buildPathWithin(_, _, _, _, _)
buildPathWithin(nesting, layerMap, hier, mem, layerID) ==
    IF nesting = 0
    THEN [path |-> nilSlice, hier |-> hier, mem |-> mem, pending |-> TRUE]
    ELSE IF layerID \in DOMAIN hier
    THEN [path |-> hier[layerID], hier |-> hier, mem |-> mem, pending |-> FALSE]
    ELSE IF layerID \notin DOMAIN layerMap
         THEN [path |-> nilSlice, hier |-> hier, mem |-> mem, pending |-> FALSE]
    ELSE LET layer == layerMap[layerID]
             guarded == markInProgress(hier, layerID)
         IN IF layer.ParentLayerId # -1
            THEN LET up == buildPathWithin(nesting - 1, layerMap, guarded, mem,
                                           layer.ParentLayerId)
                     ap == sliceAppend(up.mem, up.path, layer.Name)
                 IN [path |-> ap.slice,
                     hier |-> (layerID :> ap.slice) @@ up.hier,
                     mem |-> ap.mem,
                     pending |-> up.pending]
            ELSE LET lit == sliceLiteral(mem, <<layer.Name>>)
                 IN [path |-> lit.slice,
                     hier |-> (layerID :> lit.slice) @@ guarded,
                     mem |-> lit.mem,
                     pending |-> FALSE]

\* the calls of buildPath that can be nested: every call that goes on to its
\* parent has marked a layer of layerMap that no call around it has marked
maxNesting(layerMap) == Cardinality(DOMAIN layerMap) + 1

buildPath(layerMap, hier, mem, layerID) ==
    buildPathWithin(maxNesting(layerMap), layerMap, hier, mem, layerID)

\* a loop that keeps every entry that is not a table
isNotTableType(layer) == layer.Type # "Table"

\* whether the MapServer loop keeps a layer
isFeatureLayerType(layer) == layer.Type = "Feature Layer"

\* the MapServer loop over metadata.Layers: [layers, hier, mem, pending]
RECURSIVE mapServerLayers(_, _, _, _, _, _)
mapServerLayers(layers, layerMap, hier, mem, serviceURL, acc) ==
    IF layers = <<>>
    THEN [layers |-> acc, hier |-> hier, mem |-> mem, pending |-> FALSE]
    ELSE LET layer == Head(layers)
         IN IF isFeatureLayerType(layer)
            THEN LET bp == buildPath(layerMap, hier, mem, layer.ID)
                     parentPath == IF bp.path.len > 0
                                   THEN [bp.path EXCEPT !.len = bp.path.len - 1]
                                   ELSE bp.path
                     rest == mapServerLayers(Tail(layers), layerMap, bp.hier, bp.mem,
                                serviceURL,
                                Append(acc, AvailableLayerInfo(Itoa(layer.ID), layer.Name,
                                                layer.Type, serviceURL, parentPath)))
                 IN [rest EXCEPT !.pending = @ \/ bp.pending]
            ELSE mapServerLayers(Tail(layers), layerMap, hier, mem, serviceURL, acc)

\* FetchServiceLayers: [err, layers, mem, pending]
FetchServiceLayers(resp, mem, serviceURL, svcType) ==
    IF svcType = "FeatureServer"
    THEN LET metadata == FetchAndDecodeFeatureServer(resp)
         IN IF metadata.err \/ metadata.Error
            THEN [err |-> TRUE, layers |-> <<>>, mem |-> mem, pending |-> FALSE]
            ELSE [err |-> FALSE, layers |-> featureServerLayers(metadata.Layers, serviceURL),
                  mem |-> mem, pending |-> FALSE]
    ELSE IF svcType = "MapServer"
    THEN LET metadata == FetchAndDecodeMapServer(resp)
         IN IF metadata.err \/ metadata.Error
            THEN [err |-> TRUE, layers |-> <<>>, mem |-> mem, pending |-> FALSE]
            ELSE LET r == mapServerLayers(metadata.Layers, layerMapOf(metadata.Layers),
                                          <<>>, mem, serviceURL, <<>>)
                 IN [err |-> FALSE, layers |-> r.layers, mem |-> r.mem,
                     pending |-> r.pending]
    ELSE [err |-> TRUE, layers |-> <<>>, mem |-> mem, pending |-> FALSE]

-----------------------------------------------------------------------------
(* main.go: selectAndAddLayers.  The work set layersToProcess is a function *)
(* from keys (strings) to descriptors.  The line typed by the operator is   *)
(* a string whose tokens are words, "," and " ".                            *)

\* fmt.Sprintf("%s/%s", layer.ServiceURL, layer.ID)
uniqueKey(layer) == layer.ServiceURL \o <<"/", layer.ID>>

\* layersToProcess[key] = layer
put(work, key, layer) == (key :> layer) @@ work

\* for _, layer := range availableLayers { layersToProcess[uniqueKey] = layer }
RECURSIVE addAll(_, _)
addAll(work, layers) ==
    IF layers = <<>> THEN work
    ELSE addAll(put(work, uniqueKey(Head(layers)), Head(layers)), Tail(layers))

\* strconv.Atoi on a trimmed part of the operator's line: [ok, num]
Atoi(part) ==
    IF Len(part) # 1 THEN [ok |-> FALSE, num |-> 0]
    ELSE CASE part[1] = "0" -> [ok |-> TRUE, num |-> 0]
           [] part[1] = "1" -> [ok |-> TRUE, num |-> 1]
           [] part[1] = "2" -> [ok |-> TRUE, num |-> 2]
           [] part[1] = "3" -> [ok |-> TRUE, num |-> 3]
           [] part[1] = "4" -> [ok |-> TRUE, num |-> 4]
           [] part[1] = "7" -> [ok |-> TRUE, num |-> 7]
           [] part[1] = "-1" -> [ok |-> TRUE, num |-> -1]
           [] OTHER -> [ok |-> FALSE, num |-> 0]

\* a selection that gives up at the first part that is no index in range
selectedIndicesUntilInvalid(input, n) ==
    LET parts == Split(input, ",")
    IN IF \A j \in 1..Len(parts) : /\ Atoi(Trim(parts[j], " ")).ok
                                    /\ Atoi(Trim(parts[j], " ")).num >= 1
                                    /\ Atoi(Trim(parts[j], " ")).num <= n
       THEN {Atoi(Trim(parts[j], " ")).num : j \in 1..Len(parts)}
       ELSE {}

\* the indices the operator's comma-separated line selects (selectedIndices,
\* 1-based here)
selectedIndices(input, n) ==
    LET parts == Split(input, ",")
    IN {Atoi(Trim(parts[i], " ")).num : i \in
            {j \in 1..Len(parts) : /\ Atoi(Trim(parts[j], " ")).ok
                                    /\ Atoi(Trim(parts[j], " ")).num >= 1
                                    /\ Atoi(Trim(parts[j], " ")).num <= n}}

\* for index := range selectedIndices { ... }, the map visited in the order
\* given: a sequence of indices
RECURSIVE addIndices(_, _, _)
addIndices(work, layers, order) ==
    IF order = <<>> THEN work
    ELSE addIndices(put(work, uniqueKey(layers[Head(order)]), layers[Head(order)]),
                    layers, Tail(order))

\* the orders in which a range over the set S may visit it
Orders(S) == {o \in [1..Cardinality(S) -> S] : \A i, j \in DOMAIN o : i # j => o[i] # o[j]}

\* a comparison with "all" that does not fold the case
asksForAllExactCase(input) == input = <<"all">>

\* whether the operator's line asks for every layer
asksForAll(input) == ToLower(input) = <<"all">>

\* selectAndAddLayers: the work set it leaves, for the order in which the range
\* over selectedIndices runs
selectAndAddLayers(work, availableLayers, selectAll, input, order) ==
    IF selectAll
    THEN IF Len(availableLayers) = 0 THEN work ELSE addAll(work, availableLayers)
    ELSE LET line == Trim(input, " ")
         IN IF asksForAll(line) THEN addAll(work, availableLayers)
            ELSE IF selectedIndices(line, Len(availableLayers)) = {} THEN work
            ELSE addIndices(work, availableLayers, order)

-----------------------------------------------------------------------------
(* Normalisation driver: NormalizeArcGISURL applied to an input and then to *)
(* its own result.                                                          *)

Schemes == {<<>>, <<"https", ":">>, <<"HTTP", ":">>}

Leads == {<<>>, <<"/", "/">>}

Hosts == {<<>>, <<"h.com">>, <<"h.com", ":", "8080">>, <<"arcgis">>}

Prefixes == {<<"/", "arcgis", "/", "rest", "/", "services">>,
             <<"/", "ARCGIS", "/", "Rest", "/", "SERVICES">>,
             <<"/", "rest", "/", "services">>,
             <<"/", "Svc">>}

\* a path segment is a word or empty
Segments == {<<>>, <<"Svc">>, <<"featureserver">>, <<"MapServer">>, <<"0">>}

Queries == {<<>>, <<"?">>, <<"?", "f", "=", "json">>,
            <<"?", "token", "=", "abc", "&", "f", "=", "json", "&", "F", "=", "json">>}

RECURSIVE SegPaths(_)
SegPaths(n) ==
    IF n = 0 THEN {<<>>}
    ELSE SegPaths(n - 1)
         \cup {p \o <<"/">> \o g : p \in SegPaths(n - 1), g \in Segments}

Slashes(n) == [i \in 1..n |-> "/"]

RawURLs ==
    {sc \o ld \o h \o pf \o sg \o Slashes(t) \o q :
        sc \in Schemes, ld \in Leads, h \in Hosts, pf \in Prefixes,
        sg \in SegPaths(MaxSegs), t \in 0..MaxSlashes, q \in Queries}


UrlIdle == rawURL = <<>> /\ once = <<>> /\ twice = <<>> /\ npc = "idle"

FetchIdle == response = <<>> /\ serviceType = "" /\ fetched = <<>> /\ fpc = "idle"

SelectIdle ==
    /\ candidates = <<>> /\ operatorInput = <<>> /\ workAuto = <<>> /\ workAsked = <<>>
    /\ spc = "idle"

RunIdle ==
    /\ inputURL = <<>> /\ flags = <<>> /\ layersToProcess = <<>> /\ mainPC = "idle"
    /\ processedKeys = {} /\ wg = 0 /\ tasks = <<>>
    /\ successCount = 0 /\ skippedCount = 0 /\ errorCount = 0
    /\ files = <<>> /\ exitStatus = 0 /\ summary = <<>>

GeomIdle == geometry = <<>> /\ converted = <<>> /\ gpc = "idle"

ExportIdle == inputFeatures = <<>> /\ exported = <<>> /\ epc = "idle"

QueryIdle ==
    /\ queryReply = <<>> /\ queryFeatures = <<>> /\ drawing = <<>> /\ resolved = <<>>
    /\ qpc = "idle"

RunAndConvIdle == RunIdle /\ GeomIdle /\ ExportIdle /\ QueryIdle

WalkIdle == webMap = <<>> /\ servers = <<>> /\ walked = <<>> /\ wpc = "idle"

KmlIdle == geoJSON = <<>> /\ documents = <<>> /\ kpc = "idle"

MoreIdle == WalkIdle /\ KmlIdle

vars == <<urlVars, fetchVars, selectVars, runVars, convVars, moreVars>>

NormInit ==
    /\ rawURL \in RawURLs
    /\ once = <<>>
    /\ twice = <<>>
    /\ npc = "start"
    /\ FetchIdle /\ SelectIdle /\ RunAndConvIdle
    /\ MoreIdle

NormalizeOnce ==
    /\ npc = "start"
    /\ once' = NormalizeArcGISURL(rawURL)
    /\ npc' = "once"
    /\ UNCHANGED <<rawURL, twice>>

NormalizeAgain ==
    /\ npc = "once"
    /\ twice' = NormalizeArcGISURL(once)
    /\ npc' = "done"
    /\ UNCHANGED <<rawURL, once>>

NormNext ==
    (NormalizeOnce \/ NormalizeAgain)
    /\ UNCHANGED <<fetchVars, selectVars, runVars, convVars, moreVars>>

SpecNorm == NormInit /\ [][NormNext]_vars

\* C1: for every service URL that parses, normalising the normalised URL
\* gives the normalised URL again, whatever the scheme, the casing of the
\* segments, the trailing slashes or the query of the input.
C1_NormalizeIdempotent ==
    (npc = "done" /\ isArcGISService(rawURL) /\ urlParse(rawURL).ok) => twice = once

\* a service URL without scheme, with a response-format parameter and with
\* trailing slashes has been normalised twice, and the first pass changed it
C1_Witness ==
    /\ npc = "done"
    /\ isArcGISService(rawURL) /\ urlParse(rawURL).ok
    /\ urlParse(rawURL).Scheme = <<>>
    /\ Contains(rawURL, <<"f", "=", "json">>)
    /\ Contains(rawURL, <<"MapServer", "/", "/">>)
    /\ once # rawURL
    /\ IsValidHTTPURL(once)

-----------------------------------------------------------------------------
(* Discovery driver: one call of FetchServiceLayers on the reply of a      *)
(* server.                                                                  *)

JSONIds == {[kind |-> "number", val |-> 0], [kind |-> "number", val |-> 1],
            [kind |-> "string", val |-> 0], [kind |-> "null", val |-> 0]}

LayerName(j) == IF j.kind = "number" THEN (IF j.val = 0 THEN "Roads" ELSE "Rivers")
                ELSE "Odd"

\* entries of a FeatureServer document
FeatureEntries ==
    {[id |-> j, name |-> LayerName(j), type |-> t, parentLayerId |-> -1] :
        j \in JSONIds, t \in {"Feature Layer"}}

TableEntries ==
    {[id |-> [kind |-> "number", val |-> 2], name |-> "Owners", type |-> "Table",
      parentLayerId |-> -1]}

MapLayerName(n) == IF n = 0 THEN "Base" ELSE IF n = 1 THEN "Roads" ELSE "Rivers"

\* entries of a MapServer document
MapEntries ==
    {[id |-> [kind |-> "number", val |-> n], name |-> MapLayerName(n), type |-> t,
      parentLayerId |-> p] :
        n \in {0, 1, 2}, t \in {"Feature Layer", "Group Layer"}, p \in {-1, 0, 1, 2}}

RECURSIVE SeqsUpTo(_, _)
SeqsUpTo(S, n) ==
    IF n = 0 THEN {<<>>}
    ELSE SeqsUpTo(S, n - 1)
         \cup {Append(q, e) : q \in {r \in SeqsUpTo(S, n - 1) : Len(r) = n - 1}, e \in S}

Documents ==
    {[layers |-> l, tables |-> t, error |-> FALSE] :
        l \in SeqsUpTo(FeatureEntries, MaxLayers), t \in SeqsUpTo(TableEntries, MaxTables)}
    \cup {[layers |-> l, tables |-> <<>>, error |-> FALSE] :
             l \in SeqsUpTo(MapEntries, MaxLayers)}
    \cup {[layers |-> <<>>, tables |-> <<>>, error |-> TRUE]}

Responses == {[status |-> "ok", doc |-> d] : d \in Documents}
             \cup {[status |-> "failed", doc |-> [layers |-> <<>>, tables |-> <<>>,
                                                  error |-> FALSE]]}

ServiceURLs == {<<"https", ":", "/", "/", "h.com", "/", "ArcGIS", "/", "rest", "/",
                  "services", "/", "Svc", "/", "MapServer", "/">>}

FetchInit ==
    /\ response \in Responses
    /\ serviceType \in {"FeatureServer", "MapServer", "ImageServer"}
    /\ fetched = <<>>
    /\ fpc = "start"
    /\ UrlIdle /\ SelectIdle /\ RunAndConvIdle
    /\ MoreIdle

CallFetchServiceLayers ==
    /\ fpc = "start"
    /\ \E u \in ServiceURLs : fetched' = FetchServiceLayers(response, <<>>, u, serviceType)
    /\ fpc' = "done"
    /\ UNCHANGED <<response, serviceType>>

FetchNext ==
    /\ CallFetchServiceLayers
    /\ UNCHANGED <<urlVars, selectVars, runVars, convVars, moreVars>>

SpecFetch == FetchInit /\ [][FetchNext]_vars

\* the IDs of the returned descriptors, in order
fetchedIDs == [i \in 1..Len(fetched.layers) |-> fetched.layers[i].ID]

\* the ids of the entries of a layers array that satisfy Keep, in document order
idsWhere(layers, Keep(_)) ==
    LET kept == SelectSeq(layers, Keep) IN [i \in 1..Len(kept) |-> Itoa(kept[i].id.val)]

allNumericIds(layers) == \A i \in 1..Len(layers) : layers[i].id.kind = "number"

\* C3: on FeatureServer metadata fetched and decoded by FetchAndDecode,
\* FetchServiceLayers returns one descriptor per entry of the layers array
\* with a numeric id, in document order and with that id, and none for the
\* entries of the tables array.
C3_FeatureServerOnePerLayer ==
    (fpc = "done" /\ serviceType = "FeatureServer" /\ response.status = "ok"
        /\ ~response.doc.error)
    => /\ ~fetched.err
       /\ fetchedIDs = idsWhere(response.doc.layers, LAMBDA e : e.id.kind = "number")

\* C4: on MapServer metadata with N entries of type "Feature Layer" and M
\* entries of another type, FetchServiceLayers returns exactly N descriptors,
\* one per Feature Layer in document order, and none for the other entries.
C4_MapServerFeatureLayersOnly ==
    (fpc = "done" /\ serviceType = "MapServer" /\ response.status = "ok"
        /\ ~response.doc.error /\ allNumericIds(response.doc.layers))
    => /\ ~fetched.err
       /\ fetchedIDs = idsWhere(response.doc.layers, LAMBDA e : e.type = "Feature Layer")

\* a MapServer document with a group and a Feature Layer below it was fetched
C4_Witness ==
    /\ fpc = "done" /\ serviceType = "MapServer" /\ response.status = "ok"
    /\ Len(response.doc.layers) = 2
    /\ response.doc.layers[1].type = "Group Layer"
    /\ response.doc.layers[2].type = "Feature Layer"
    /\ response.doc.layers[2].parentLayerId = response.doc.layers[1].id.val
    /\ response.doc.layers[1].parentLayerId = -1
    /\ Len(fetched.layers) = 1
    /\ sliceValue(fetched.mem, fetched.layers[1].ParentPath) = <<response.doc.layers[1].name>>

-----------------------------------------------------------------------------
(* Selection driver: selectAndAddLayers run on the same candidates and the *)
(* same prior work set, once with -select-all and once interactively.      *)

CandidateURLs ==
    {<<"https", ":", "/", "/", "h.com", "/", "ArcGIS", "/", "rest", "/", "services", "/",
       "Svc", "/", "MapServer">>,
     <<"https", ":", "/", "/", "h.com", "/", "ArcGIS", "/", "rest", "/", "services", "/",
       "Svc", "/", "MapServer", "/">>}

Candidates ==
    {AvailableLayerInfo(id, nm, "Feature Layer", u, nilSlice) :
        id \in {"0", "1"}, nm \in {"Roads", "Rivers"}, u \in CandidateURLs}

OperatorInputs ==
    {<<"all">>, <<" ", "ALL", " ">>, <<"All">>, <<>>, <<"1">>, <<"2", ",", " ", "1">>,
     <<"1", ",", "7", ",", "x">>, <<"0", ",", "x">>, <<"all", ",", "1">>}

PriorWork == {addAll(<<>>, c) : c \in SeqsUpTo(Candidates, 1)}

SelectInit ==
    /\ candidates \in SeqsUpTo(Candidates, MaxCandidates)
    /\ operatorInput \in OperatorInputs
    /\ \E w \in PriorWork : workAuto = w /\ workAsked = w
    /\ spc = "start"
    /\ UrlIdle /\ FetchIdle /\ RunAndConvIdle
    /\ MoreIdle

SelectBoth ==
    /\ spc = "start"
    /\ workAuto' = selectAndAddLayers(workAuto, candidates, TRUE, operatorInput, <<>>)
    /\ \E o \in Orders(selectedIndices(Trim(operatorInput, " "), Len(candidates))) :
          workAsked' = selectAndAddLayers(workAsked, candidates, FALSE, operatorInput, o)
    /\ spc' = "done"
    /\ UNCHANGED <<candidates, operatorInput>>

SelectNext == SelectBoth /\ UNCHANGED <<urlVars, fetchVars, runVars, convVars, moreVars>>

SpecSelect == SelectInit /\ [][SelectNext]_vars

\* C5: for any candidates and any prior work set, the interactive answer
\* "all" leaves the work set that -select-all leaves.
C5_AllEqualsSelectAll ==
    (spc = "done" /\ operatorInput \in {<<"all">>, <<" ", "ALL", " ">>, <<"All">>})
    => workAsked = workAuto

\* the operator typed " ALL " on two candidates, one of which replaced an entry
\* of the prior work set
C5_Witness ==
    /\ spc = "done"
    /\ operatorInput = <<" ", "ALL", " ">>
    /\ Len(candidates) = 2
    /\ Cardinality(DOMAIN workAsked) = 2
    /\ \E k \in DOMAIN workAsked : workAsked[k].Name = "Rivers"

-----------------------------------------------------------------------------
(* main.go: discovery.  The replies of the servers to the requests of one   *)
(* run are gathered in a record w: the item, the web map data, the item a   *)
(* web-map node refers to, and the metadata of the two services.            *)

\* exit status of a run that has not ended
Running == -1

\* exit status of a Go program that ends in a panic
PanicStatus == 2

\* strings.Contains(strings.ToLower(u), "/mapserver")
containsMapServer(u) ==
    \E i \in 1..(Len(u) - 1) : u[i] = "/" /\ ToLowerWord(u[i + 1]) = "mapserver"

\* strings.Contains(strings.ToLower(u), "/featureserver")
containsFeatureServer(u) ==
    \E i \in 1..(Len(u) - 1) : u[i] = "/" /\ ToLowerWord(u[i + 1]) = "featureserver"

\* words the class [a-f0-9]+ matches whole
IsHexWord(w) == w \in {"abc", "0", "1", "7"}

\* regexp id=([a-f0-9]+) on the item page URL: [ok, id]
extractItemID(u) ==
    IF \E i \in 1..(Len(u) - 2) : u[i] = "id" /\ u[i + 1] = "=" /\ IsHexWord(u[i + 2])
    THEN [ok |-> TRUE,
          id |-> u[2 + CHOOSE i \in 1..(Len(u) - 2) :
                        /\ u[i] = "id" /\ u[i + 1] = "=" /\ IsHexWord(u[i + 2])
                        /\ \A j \in 1..(i - 1) :
                              ~(u[j] = "id" /\ u[j + 1] = "=" /\ IsHexWord(u[j + 2]))]]
    ELSE [ok |-> FALSE, id |-> ""]

\* Client.HandleArcGISOnlineItem: [err, nilData, Type, URL, ID]; a failed call
\* returns a nil *ItemData
HandleArcGISOnlineItem(reply, itemPageURL) ==
    IF ~extractItemID(itemPageURL).ok \/ reply.status # "ok" \/ reply.apiError
    THEN [err |-> TRUE, nilData |-> TRUE, Type |-> "", URL |-> <<>>, ID |-> ""]
    ELSE [err |-> FALSE, nilData |-> FALSE, Type |-> reply.Type, URL |-> reply.URL,
          ID |-> reply.ID]

\* Client.HandleWebMap: [err, OperationalLayers]
HandleWebMap(reply) ==
    IF reply.status # "ok" \/ reply.apiError
    THEN [err |-> TRUE, OperationalLayers |-> <<>>]
    ELSE [err |-> FALSE, OperationalLayers |-> reply.operationalLayers]

\* the reply of the server of serviceURL to a service metadata request
replyOf(w, serviceURL) ==
    IF containsFeatureServer(serviceURL) THEN w.featureServer ELSE w.mapServer

\* the last piece of strings.Split(u, "/") and the URL without it
lastPart(u) == LET parts == Split(u, "/") IN parts[Len(parts)]

withoutLastPart(u) == LET parts == Split(u, "/") IN Join(SubSeq(parts, 1, Len(parts) - 1), "/")

\* the last piece as one word (the URLs of the model end with at most one word)
lastWord(u) == IF lastPart(u) = <<>> THEN "" ELSE lastPart(u)[1]

\* strconv.Atoi(lastPart) succeeds
isLayerNumber(part) == Len(part) = 1 /\ IsNumber(part[1])

\* append(sl, elems...): [slice, mem]
sliceAppendAll(mem, sl, elems) ==
    IF elems = <<>> THEN [slice |-> sl, mem |-> mem]
    ELSE IF sl.len + Len(elems) <= sl.cap
    THEN [slice |-> [sl EXCEPT !.len = sl.len + Len(elems)],
          mem |-> [mem EXCEPT ![sl.arr] =
                      [i \in 1..sl.cap |-> IF i > sl.len /\ i <= sl.len + Len(elems)
                                           THEN elems[i - sl.len] ELSE mem[sl.arr][i]]]]
    ELSE LET need == sl.len + Len(elems)
             c == IF need > 2 * sl.cap THEN need ELSE 2 * sl.cap
             fresh == [i \in 1..c |-> IF i <= sl.len THEN mem[sl.arr][i]
                                      ELSE IF i <= need THEN elems[i - sl.len]
                                      ELSE NoName]
         IN [slice |-> [arr |-> Len(mem) + 1, len |-> need, cap |-> c],
             mem |-> Append(mem, fresh)]

\* for _, sl := range subLayers { sl.ParentPath = currentPath; append }
withParentPath(subLayers, currentPath) ==
    [i \in 1..Len(subLayers) |-> [subLayers[i] EXCEPT !.ParentPath = currentPath]]

\* for _, sl := range subLayers { sl.ParentPath = append(currentPath,
\* sl.ParentPath...); append }: [layers, mem]
RECURSIVE withPrefixedPath(_, _, _, _)
withPrefixedPath(subLayers, currentPath, mem, acc) ==
    IF subLayers = <<>> THEN [layers |-> acc, mem |-> mem]
    ELSE LET sl == Head(subLayers)
             ap == sliceAppendAll(mem, currentPath, sliceValue(mem, sl.ParentPath))
         IN withPrefixedPath(Tail(subLayers), currentPath, ap.mem,
                             Append(acc, [sl EXCEPT !.ParentPath = ap.slice]))

\* the URL HandleArcGISOnlineItem is given for a node's item reference
itemPageURL(itemID) ==
    <<"https", ":", "/", "/", "www.arcgis.com", "/", "home", "/", "item.html", "?",
      "id", "=", itemID>>

\* the serviceType a service URL is fetched with
serviceTypeOf(u) == IF containsFeatureServer(u) THEN "FeatureServer" ELSE "MapServer"

\* processOperationalLayer and the loops that call it.  st is the state of
\* the walk: [available, mem, panic]
RECURSIVE processOperationalLayer(_, _, _, _)
RECURSIVE walkLayers(_, _, _, _)
RECURSIVE processWithPath(_, _, _, _)

\* for _, subLayer := range layers { processOperationalLayer(...) }
walkLayers(w, layers, parentPath, st) ==
    IF layers = <<>> \/ st.panic THEN st
    ELSE walkLayers(w, Tail(layers), parentPath,
                    processOperationalLayer(w, Head(layers), parentPath, st))

\* the descriptors of a fetched service with the path of the node: the walk
\* after FetchServiceLayers has returned r
withServiceLayers(st, r, currentPath, prefixed) ==
    IF r.err THEN st
    ELSE IF prefixed
    THEN LET pp == withPrefixedPath(r.layers, currentPath, r.mem, <<>>)
         IN [st EXCEPT !.available = @ \o pp.layers, !.mem = pp.mem]
    ELSE [st EXCEPT !.available = @ \o withParentPath(r.layers, currentPath),
                    !.mem = r.mem]

\* lines 493-531: a node that holds a service URL, normalised to serviceURL
serviceReference(w, opLayer, currentPath, st, serviceURL) ==
    IF isLayerNumber(lastPart(serviceURL))
    THEN [st EXCEPT !.available =
             Append(@, [ID |-> lastPart(serviceURL)[1],
                        Name |-> opLayer.Title,
                        ServiceURL |-> withoutLastPart(serviceURL),
                        ParentPath |-> currentPath,
                        IsFeatureLayer |-> TRUE,
                        Type |-> opLayer.LayerType])]
    ELSE withServiceLayers(st,
             FetchServiceLayers(replyOf(w, serviceURL), st.mem, serviceURL,
                                serviceTypeOf(serviceURL)),
             currentPath, FALSE)

\* lines 533-560: a node that refers to an item
itemReference(w, currentPath, st, itemData) ==
    IF itemData.err
    THEN \* itemData is nil and line 537 reads itemData.Error
         [st EXCEPT !.panic = TRUE]
    ELSE IF itemData.URL = <<>> THEN st
    ELSE IF containsFeatureServer(itemData.URL) \/ containsMapServer(itemData.URL)
    THEN withServiceLayers(st,
             FetchServiceLayers(replyOf(w, itemData.URL), st.mem, itemData.URL,
                                serviceTypeOf(itemData.URL)),
             currentPath, TRUE)
    ELSE st

\* the node with its own path appended: cp is append(parentPath, opLayer.Title)
processWithPath(w, opLayer, st, cp) ==
    IF opLayer.LayerType = "GroupLayer" \/ Len(opLayer.Layers) > 0
    THEN walkLayers(w, opLayer.Layers, cp.slice, [st EXCEPT !.mem = cp.mem])
    ELSE IF opLayer.FeatureCollection > 0 THEN [st EXCEPT !.mem = cp.mem]
    ELSE IF opLayer.URL # <<>>
            /\ (containsFeatureServer(opLayer.URL) \/ containsMapServer(opLayer.URL))
    THEN serviceReference(w, opLayer, cp.slice, [st EXCEPT !.mem = cp.mem],
                          NormalizeArcGISURL(opLayer.URL))
    ELSE IF opLayer.ItemID # ""
    THEN itemReference(w, cp.slice, [st EXCEPT !.mem = cp.mem],
                       HandleArcGISOnlineItem(w.refItem, itemPageURL(opLayer.ItemID)))
    ELSE [st EXCEPT !.mem = cp.mem]

processOperationalLayer(w, opLayer, parentPath, st) ==
    processWithPath(w, opLayer, st, sliceAppend(st.mem, parentPath, opLayer.Title))

\* what a handler of main leaves: an error, a panic, the entries it put in
\* layersToProcess itself, and the list it hands to selectAndAddLayers
Discovered(err, panic, work, available, mem) ==
    [err |-> err, panic |-> panic, work |-> work, available |-> available, mem |-> mem]

\* handleWebMap
handleWebMap(w, itemID) ==
    LET webMapData == HandleWebMap(w.webMap)
    IN IF webMapData.err THEN Discovered(TRUE, FALSE, <<>>, <<>>, <<>>)
       ELSE LET st == walkLayers(w, webMapData.OperationalLayers, nilSlice,
                                 [available |-> <<>>, mem |-> <<>>, panic |-> FALSE])
            IN Discovered(FALSE, st.panic, <<>>, st.available, st.mem)

\* the reply to the metadata request of handleMapServerURL: a URL that ends
\* with a layer number is answered with that layer's document, which has no
\* "layers" member
metadataReply(w, u) ==
    IF isLayerNumber(lastPart(u))
    THEN [status |-> "ok", doc |-> [layers |-> <<>>, tables |-> <<>>, error |-> FALSE]]
    ELSE replyOf(w, u)

\* handleMapServerURL
handleMapServerURL(w, mapServerURL) ==
    LET r == FetchServiceLayers(metadataReply(w, mapServerURL), <<>>, mapServerURL,
                                "MapServer")
    IN IF r.err THEN Discovered(TRUE, FALSE, <<>>, <<>>, <<>>)
       ELSE Discovered(FALSE, FALSE, <<>>, r.layers, r.mem)

\* handleFeatureServerURL
handleFeatureServerURL(w, featureServerURL) ==
    IF isLayerNumber(lastPart(featureServerURL))
    THEN LET layerID == lastPart(featureServerURL)[1]
             base == withoutLastPart(featureServerURL)
         IN Discovered(FALSE, FALSE,
                       put(<<>>, base \o <<"/", layerID>>,
                           [ID |-> layerID, Name |-> <<"Layer_", layerID>>,
                            ServiceURL |-> base, ParentPath |-> nilSlice,
                            IsFeatureLayer |-> TRUE, Type |-> ""]),
                       <<>>, <<>>)
    ELSE LET r == FetchServiceLayers(replyOf(w, featureServerURL), <<>>,
                                     featureServerURL, "FeatureServer")
         IN IF r.err THEN Discovered(TRUE, FALSE, <<>>, <<>>, <<>>)
            ELSE Discovered(FALSE, FALSE, <<>>, r.layers, r.mem)

\* handleArcGISOnlineItem
handleArcGISOnlineItem(w, itemPage) ==
    LET itemData == HandleArcGISOnlineItem(w.rootItem, itemPage)
    IN IF itemData.err THEN Discovered(TRUE, FALSE, <<>>, <<>>, <<>>)
       ELSE IF itemData.Type = "Feature Service"
       THEN IF itemData.URL = <<>> THEN Discovered(TRUE, FALSE, <<>>, <<>>, <<>>)
            ELSE handleFeatureServerURL(w, itemData.URL)
       ELSE IF itemData.Type = "Map Service"
       THEN IF itemData.URL = <<>> THEN Discovered(TRUE, FALSE, <<>>, <<>>, <<>>)
            ELSE handleMapServerURL(w, itemData.URL)
       ELSE IF itemData.Type = "Web Map" THEN handleWebMap(w, itemData.ID)
       ELSE Discovered(TRUE, FALSE, <<>>, <<>>, <<>>)

\* main, lines 285-295, with the normalised URL at hand: [ok, url]
validated(raw, normalizedURL) ==
    IF raw = <<>> THEN [ok |-> FALSE, url |-> raw]
    ELSE IF ~IsValidHTTPURL(raw)
    THEN [ok |-> IsValidHTTPURL(normalizedURL), url |-> normalizedURL]
    ELSE [ok |-> TRUE, url |-> normalizedURL]

validatedInput(raw) == validated(raw, NormalizeArcGISURL(raw))

\* main, lines 305-329: the handler the input URL is classified for
classifyAndHandle(w, url) ==
    IF IsArcGISOnlineItemURL(url) THEN handleArcGISOnlineItem(w, url)
    ELSE IF containsMapServer(url) THEN handleMapServerURL(w, url)
    ELSE IF containsFeatureServer(url) THEN handleFeatureServerURL(w, url)
    ELSE IF Len(Split(url, "/")) < 2 THEN Discovered(TRUE, FALSE, <<>>, <<>>, <<>>)
    ELSE Discovered(FALSE, FALSE,
                    put(<<>>, url,
                        [ID |-> lastWord(url),
                         Name |-> <<"Layer_">> \o lastPart(url),
                         ServiceURL |-> withoutLastPart(url), ParentPath |-> nilSlice,
                         IsFeatureLayer |-> TRUE, Type |-> ""]),
                    <<>>, <<>>)

\* the ParentPath of every descriptor read through the memory the walk left
resolvePaths(work, mem) ==
    [k \in DOMAIN work |-> [work[k] EXCEPT !.ParentPath = sliceValue(mem, @)]]

-----------------------------------------------------------------------------
(* main.go: processSelectedLayer, cut where it reads or writes the output   *)
(* directory.  -exclude-symbols is set and -save-symbols is not, so lines   *)
(* 705-800 do nothing in a run; the symbols are modelled on their own under *)
(* SpecQuery.                                                               *)

MaxFeatures == 1      \* features in a reply to the feature query
MaxNodes == 2         \* operational layers at the top of the web map

\* Client.FetchFeatures on the reply of the server: [err, features]
FetchFeatures(reply, layerID) ==
    IF reply.status # "ok" THEN [err |-> <<"feature fetch failed">>, features |-> 0]
    ELSE IF reply.hasError
    THEN [err |-> <<"feature query API error: ">> \o reply.message, features |-> 0]
    ELSE IF reply.features = 0 /\ ~reply.exceededTransferLimit
    THEN [err |-> <<"no features found", " for layer ", layerID>>, features |-> 0]
    ELSE [err |-> <<>>, features |-> reply.features]

\* the format switch: [err, fileExt]
encode(format, features) ==
    IF ToLowerWord(format) = "geojson" THEN [err |-> <<>>, fileExt |-> "geojson"]
    ELSE IF ToLowerWord(format) = "txt"
    THEN IF features = 0
         THEN [err |-> <<"failed to convert features to text: ",
                         "no features to convert to text">>, fileExt |-> ""]
         ELSE [err |-> <<>>, fileExt |-> "txt"]
    ELSE [err |-> <<"unsupported format: ", format>>, fileExt |-> ""]

\* the characters the class [<>:"/\|?* - ] matches
ForbiddenInFilename == {"<", ">", ":", "\"", "/", "|", "?", "*", " "}

\* strings.ReplaceAll(name, " ", "_") and the removal of the class
safeFilenameBase(name) ==
    LET underscored == [i \in 1..Len(name) |-> IF name[i] = " " THEN "_" ELSE name[i]]
        keep(c) == c \notin ForbiddenInFilename
    IN SelectSeq(underscored, keep)

\* lines 858-868, the path below the output directory
outputPathOf(actualLayerName, layerID, prefix, fileExt) ==
    LET base == IF safeFilenameBase(actualLayerName) = <<>> THEN <<"Layer_", layerID>>
                ELSE safeFilenameBase(actualLayerName)
    IN prefix \o base \o <<".", fileExt>>

\* lines 679-868: [err, outputPath, emptyQuery]
prepareOutput(layerInfo, meta, fr, format, prefix) ==
    IF meta.status # "ok"
    THEN [err |-> <<"failed to fetch layer metadata">>, outputPath |-> <<>>,
          emptyQuery |-> FALSE]
    ELSE IF meta.hasError
    THEN [err |-> <<"layer metadata API error">>, outputPath |-> <<>>,
          emptyQuery |-> FALSE]
    ELSE LET named == IF meta.Name = <<>> THEN layerInfo.Name ELSE meta.Name
             actualLayerName == IF named = <<>> THEN <<"Layer_", layerInfo.ID>> ELSE named
             ff == FetchFeatures(fr, layerInfo.ID)
             empty == fr.status = "ok" /\ ~fr.hasError /\ fr.features = 0
                      /\ ~fr.exceededTransferLimit
         IN IF ff.err # <<>>
            THEN [err |-> IF Contains(ff.err, <<"no features found">>)
                          THEN <<"no features found">>
                          ELSE <<"failed to fetch features: ">> \o ff.err,
                  outputPath |-> <<>>, emptyQuery |-> empty]
            ELSE LET enc == encode(format, ff.features)
                 IN IF enc.err # <<>>
                    THEN [err |-> enc.err, outputPath |-> <<>>, emptyQuery |-> empty]
                    ELSE [err |-> <<>>,
                          outputPath |-> outputPathOf(actualLayerName, layerInfo.ID,
                                                      prefix, enc.fileExt),
                          emptyQuery |-> empty]

\* what os.Stat may answer for a path
statOutcomes(fs, path) == {IF path \in DOMAIN fs THEN "found" ELSE "absent", "error"}

\* an existing-file check that asks for -overwrite first
checkExistingOverwriteFirst(stat, skipExisting, overwrite) ==
    IF stat = "found"
    THEN IF overwrite THEN <<>>
         ELSE IF skipExisting THEN <<"skipped existing file">>
         ELSE <<"output file ", "already exists">>
    ELSE IF stat = "absent" THEN <<>>
    ELSE <<"failed to check output file status">>

\* lines 870-880: the error of the existing-file check, <<>> to go on
checkExisting(stat, skipExisting, overwrite) ==
    IF stat = "found"
    THEN IF skipExisting THEN <<"skipped existing file">>
         ELSE IF ~overwrite THEN <<"output file ", "already exists">>
         ELSE <<>>
    ELSE IF stat = "absent" THEN <<>>
    ELSE <<"failed to check output file status">>

\* a classification that knows the existing-file skip only
outcomeOfExistingOnly(err) ==
    IF err # <<>>
    THEN IF err = <<"skipped existing file">> THEN "skipped" ELSE "failed"
    ELSE "success"

\* the counter the goroutine of the dispatch loop adds to for an error
outcomeOf(err) ==
    IF err # <<>>
    THEN IF err = <<"skipped existing file">> THEN "skipped"
         ELSE IF err = <<"no features found">> THEN "skipped"
         ELSE "failed"
    ELSE "success"

\* a wait that does not block
waitReturnsAtOnce(counter) == TRUE

\* wg.Wait() returns
waitReturns(counter) == counter = 0

\* an exit status that ignores the failures
exitStatusAlwaysZero(finalErrorCount) == 0

\* the exit status after the summary
exitStatusOf(finalErrorCount) == IF finalErrorCount > 0 THEN 1 ELSE 0

-----------------------------------------------------------------------------
(* A run of main: discovery, the dispatch loop, the goroutines, the wait    *)
(* and the summary.                                                         *)

SvcMapServer ==
    <<"https", ":", "/", "/", "h.com", "/", "ArcGIS", "/", "rest", "/", "services", "/",
      "Svc", "/", "MapServer">>

SvcFeatureServer ==
    <<"https", ":", "/", "/", "h.com", "/", "ArcGIS", "/", "rest", "/", "services", "/",
      "Svc", "/", "FeatureServer">>

ItemPage == itemPageURL("abc")

\* the -url arguments of the runs
InputURLs ==
    {ItemPage, SvcMapServer, SvcMapServer \o <<"/", "1">>, SvcFeatureServer,
     SvcFeatureServer \o <<"/", "0">>,
     <<"https", ":", "/", "/", "h.com", "/", "data", "/", "7">>, <<"data">>}

\* the flag combinations of the runs
Flags(selectAll, stdin, overwrite, skipExisting, format, prefix) ==
    [selectAll |-> selectAll, stdin |-> stdin, overwrite |-> overwrite,
     skipExisting |-> skipExisting, format |-> format, prefix |-> prefix]

FlagSets ==
    {Flags(TRUE, <<>>, o, s, "geojson", <<>>) : o \in BOOLEAN, s \in BOOLEAN}
    \cup {Flags(FALSE, i, FALSE, FALSE, "geojson", <<>>) : i \in {<<"all">>, <<"1">>, <<"x">>}}
    \cup {Flags(TRUE, <<>>, FALSE, FALSE, f, <<>>) : f \in {"txt", "pdf"}}
    \cup {Flags(TRUE, <<>>, FALSE, FALSE, "geojson", <<"out_">>)}

\* the content of a file that was in the output directory before the run
OldContent == <<"old">>

\* the output directories of the runs
InitialFiles == {<<>>, put(<<>>, <<"Main", "_", "St", ".", "geojson">>, OldContent)}

\* the metadata of the two services of the model
MapServerDocument ==
    [layers |-> <<[id |-> [kind |-> "number", val |-> 0], name |-> <<"Transport">>,
                   type |-> "Group Layer", parentLayerId |-> -1],
                  [id |-> [kind |-> "number", val |-> 1], name |-> <<"Main", "_", "St">>,
                   type |-> "Feature Layer", parentLayerId |-> 0]>>,
     tables |-> <<>>, error |-> FALSE]

FeatureServerDocument ==
    [layers |-> <<[id |-> [kind |-> "number", val |-> 0], name |-> <<"Rivers">>,
                   type |-> "Feature Layer"]>>,
     tables |-> <<>>, error |-> FALSE]

FailedResponse ==
    [status |-> "failed", doc |-> [layers |-> <<>>, tables |-> <<>>, error |-> FALSE]]

\* the replies to an item request
ItemReply(type, url) ==
    [status |-> "ok", apiError |-> FALSE, Type |-> type, URL |-> url, ID |-> "abc"]

FailedItemReply == [status |-> "failed", apiError |-> FALSE, Type |-> "", URL |-> <<>>,
                    ID |-> ""]

RootItemReplies ==
    {FailedItemReply, ItemReply("Web Map", <<>>), ItemReply("Map Service", SvcMapServer),
     ItemReply("Map Service", <<>>), ItemReply("Feature Service", SvcFeatureServer),
     ItemReply("Feature Service", <<>>), ItemReply("Dashboard", <<>>)}

RefItemReplies == {FailedItemReply, ItemReply("Map Service", SvcMapServer),
                   ItemReply("Map Service", <<>>)}

\* the operational layers a web map may hold
OperationalLayer(title, layerType, url, itemID, layers, featureCollection) ==
    [Title |-> title, LayerType |-> layerType, URL |-> url, ItemID |-> itemID,
     Layers |-> layers, FeatureCollection |-> featureCollection]

LayerReference ==
    OperationalLayer(<<"Main", " ", "St">>, "ArcGISFeatureLayer",
                     SvcMapServer \o <<"/", "1">>, "", <<>>, 0)

Nodes ==
    {LayerReference,
     OperationalLayer(<<"Streets">>, "ArcGISMapServiceLayer", SvcMapServer, "", <<>>, 0),
     OperationalLayer(<<"Streets">>, "", <<>>, "abc", <<>>, 0),
     OperationalLayer(<<"Rivers">>, "ArcGISFeatureLayer",
                      SvcFeatureServer \o <<"/", "0">>, "", <<>>, 0),
     OperationalLayer(<<"Group">>, "GroupLayer", <<>>, "", <<LayerReference>>, 0),
     OperationalLayer(<<"Sketch">>, "ArcGISFeatureLayer", <<>>, "", <<>>, 1),
     OperationalLayer(<<"Note">>, "", <<>>, "", <<>>, 0)}

WebMapReplies ==
    {[status |-> "failed", apiError |-> FALSE, operationalLayers |-> <<>>]}
    \cup {[status |-> "ok", apiError |-> FALSE, operationalLayers |-> l] :
             l \in SeqsUpTo(Nodes, MaxNodes)}

\* the replies of the servers during the discovery of one run; the replies
\* no request of the run asks for are held at one value
Worlds(url) ==
    IF IsArcGISOnlineItemURL(url)
    THEN {[rootItem |-> ri, webMap |-> wm, refItem |-> rf, mapServer |-> ms,
           featureServer |-> [status |-> "ok", doc |-> FeatureServerDocument]] :
             ri \in {ItemReply("Web Map", <<>>)}, wm \in WebMapReplies,
             rf \in RefItemReplies,
             ms \in {[status |-> "ok", doc |-> MapServerDocument]}}
         \cup
         {[rootItem |-> ri, webMap |-> [status |-> "failed", apiError |-> FALSE,
                                        operationalLayers |-> <<>>],
           refItem |-> FailedItemReply, mapServer |-> ms,
           featureServer |-> [status |-> "ok", doc |-> FeatureServerDocument]] :
             ri \in RootItemReplies \ {ItemReply("Web Map", <<>>)},
             ms \in {FailedResponse, [status |-> "ok", doc |-> MapServerDocument]}}
    ELSE {[rootItem |-> FailedItemReply,
           webMap |-> [status |-> "failed", apiError |-> FALSE,
                       operationalLayers |-> <<>>],
           refItem |-> FailedItemReply, mapServer |-> ms,
           featureServer |-> [status |-> "ok", doc |-> FeatureServerDocument]] :
             ms \in {FailedResponse, [status |-> "ok", doc |-> MapServerDocument]}}

\* the replies to the layer metadata request of a task
MetadataReplies ==
    {[status |-> "failed", hasError |-> FALSE, Name |-> <<>>],
     [status |-> "ok", hasError |-> TRUE, Name |-> <<>>],
     [status |-> "ok", hasError |-> FALSE, Name |-> <<>>],
     [status |-> "ok", hasError |-> FALSE, Name |-> <<"Main", " ", "St">>]}

\* the replies to the feature query of a task
FeatureReplies ==
    {[status |-> "failed", hasError |-> FALSE, message |-> <<>>, features |-> 0,
      exceededTransferLimit |-> FALSE],
     [status |-> "ok", hasError |-> TRUE, message |-> <<"Invalid query">>, features |-> 0,
      exceededTransferLimit |-> FALSE],
     [status |-> "ok", hasError |-> TRUE, message |-> <<"no features found">>,
      features |-> 0, exceededTransferLimit |-> FALSE]}
    \cup {[status |-> "ok", hasError |-> FALSE, message |-> <<>>, features |-> n,
           exceededTransferLimit |-> x] : n \in 0..MaxFeatures, x \in BOOLEAN}

\* a goroutine that has not started to run
parkedTask ==
    [pc |-> "parked", outputPath |-> <<>>, emptyQuery |-> FALSE, stat |-> "none",
     outcome |-> "none"]

\* go func() { ... }(): the goroutine the dispatch loop starts
startedTask ==
    [pc |-> "prepare", outputPath |-> <<>>, emptyQuery |-> FALSE, stat |-> "none",
     outcome |-> "none"]

RunInit ==
    /\ inputURL \in InputURLs
    /\ flags \in FlagSets
    /\ files \in InitialFiles
    /\ layersToProcess = <<>>
    /\ mainPC = "start"
    /\ processedKeys = {}
    /\ wg = 0
    /\ tasks = <<>>
    /\ successCount = 0 /\ skippedCount = 0 /\ errorCount = 0
    /\ exitStatus = Running
    /\ summary = <<>>
    /\ UrlIdle /\ FetchIdle /\ SelectIdle /\ GeomIdle /\ ExportIdle /\ QueryIdle
    /\ MoreIdle

\* what main has when it reaches line 341 or leaves before it
Outcome(pc, status, work) == [mainPC |-> pc, exitStatus |-> status, work |-> work]

\* main, lines 336-341: the work set is empty, or the dispatch loop is next
outcomeOfWork(work, mem) ==
    IF DOMAIN work = {} THEN Outcome("exited", 0, <<>>)
    ELSE Outcome("dispatch", Running, resolvePaths(work, mem))

\* main, lines 331-341, after the handler has left d
outcomesOf(d, fl) ==
    IF d.panic THEN {Outcome("exited", PanicStatus, <<>>)}
    ELSE IF d.err THEN {Outcome("exited", 1, <<>>)}
    ELSE IF Len(d.available) = 0 THEN {outcomeOfWork(d.work, d.mem)}
    ELSE {outcomeOfWork(selectAndAddLayers(d.work, d.available, fl.selectAll,
                                           fl.stdin, o), d.mem) :
             o \in Orders(selectedIndices(Trim(fl.stdin, " "), Len(d.available)))}

\* main up to the dispatch loop, lines 279-341, for every reply of the
\* servers and every order in which the range over selectedIndices may run
discoveries(in, fl) ==
    IF ~in.ok THEN {Outcome("exited", 1, <<>>)}
    ELSE UNION {outcomesOf(classifyAndHandle(w, in.url), fl) : w \in Worlds(in.url)}

M_Discover ==
    /\ mainPC = "start"
    /\ \E r \in discoveries(validatedInput(inputURL), flags) :
          /\ mainPC' = r.mainPC
          /\ exitStatus' = r.exitStatus
          /\ layersToProcess' = r.work
    /\ UNCHANGED <<inputURL, flags, processedKeys, wg, tasks, successCount,
                   skippedCount, errorCount, files, summary>>

\* one turn of the dispatch loop, lines 347-387
M_Launch(key) ==
    /\ mainPC = "dispatch"
    /\ key \in DOMAIN layersToProcess
    /\ key \notin processedKeys
    /\ processedKeys' = processedKeys \cup {key}
    /\ wg' = wg + 1
    /\ tasks' = put(tasks, key, startedTask)
    /\ UNCHANGED <<inputURL, flags, layersToProcess, mainPC, successCount, skippedCount,
                   errorCount, files, exitStatus, summary>>

\* processSelectedLayer, lines 679-868, for every reply of the server to the
\* two requests of the task
preparations(layerInfo, fl) ==
    {prepareOutput(layerInfo, meta, fr, fl.format, fl.prefix) :
        meta \in MetadataReplies, fr \in FeatureReplies}

\* the goroutine after processSelectedLayer has returned err, lines 371-385,
\* and its deferred wg.Done(), line 368
goroutineEnds(key, task, err) ==
    /\ tasks' = [tasks EXCEPT ![key] =
                    [task EXCEPT !.pc = "done", !.outcome = outcomeOf(err)]]
    /\ successCount' = IF outcomeOf(err) = "success" THEN successCount + 1
                       ELSE successCount
    /\ skippedCount' = IF outcomeOf(err) = "skipped" THEN skippedCount + 1
                       ELSE skippedCount
    /\ errorCount' = IF outcomeOf(err) = "failed" THEN errorCount + 1 ELSE errorCount
    /\ wg' = wg - 1

\* processSelectedLayer goes on to its next access to the output directory
goroutineGoesOn(key, task, pc) ==
    /\ tasks' = [tasks EXCEPT ![key] = [task EXCEPT !.pc = pc]]
    /\ UNCHANGED <<successCount, skippedCount, errorCount, wg>>

\* processSelectedLayer, lines 679-868: the two requests and the encoding
T_Prepare(key) ==
    /\ mainPC # "exited"
    /\ key \in DOMAIN tasks
    /\ tasks[key].pc = "prepare"
    /\ \E r \in preparations(layersToProcess[key], flags) :
          IF r.err = <<>>
          THEN goroutineGoesOn(key, [tasks[key] EXCEPT !.outputPath = r.outputPath,
                                                       !.emptyQuery = r.emptyQuery],
                               "stat")
          ELSE goroutineEnds(key, [tasks[key] EXCEPT !.outputPath = r.outputPath,
                                                     !.emptyQuery = r.emptyQuery],
                             r.err)
    /\ UNCHANGED <<inputURL, flags, layersToProcess, mainPC, processedKeys, files,
                   exitStatus, summary>>

\* an existing-file check that leaves an empty file behind when os.Stat fails
T_StatCreating(key) ==
    /\ mainPC # "exited"
    /\ key \in DOMAIN tasks
    /\ tasks[key].pc = "stat"
    /\ \E stat \in statOutcomes(files, tasks[key].outputPath) :
          IF checkExisting(stat, flags.skipExisting, flags.overwrite) = <<>>
          THEN goroutineGoesOn(key, [tasks[key] EXCEPT !.stat = stat], "write")
               /\ UNCHANGED files
          ELSE goroutineEnds(key, [tasks[key] EXCEPT !.stat = stat],
                             checkExisting(stat, flags.skipExisting, flags.overwrite))
               /\ files' = IF stat = "error"
                           THEN put(files, tasks[key].outputPath, <<>>) ELSE files
    /\ UNCHANGED <<inputURL, flags, layersToProcess, mainPC, processedKeys,
                   exitStatus, summary>>

\* processSelectedLayer, lines 870-880: os.Stat and the two flags
T_Stat(key) ==
    /\ mainPC # "exited"
    /\ key \in DOMAIN tasks
    /\ tasks[key].pc = "stat"
    /\ \E stat \in statOutcomes(files, tasks[key].outputPath) :
          IF checkExisting(stat, flags.skipExisting, flags.overwrite) = <<>>
          THEN goroutineGoesOn(key, [tasks[key] EXCEPT !.stat = stat], "write")
          ELSE goroutineEnds(key, [tasks[key] EXCEPT !.stat = stat],
                             checkExisting(stat, flags.skipExisting, flags.overwrite))
    /\ UNCHANGED <<inputURL, flags, layersToProcess, mainPC, processedKeys, files,
                   exitStatus, summary>>

\* the content of a file that WriteFile has opened with O_TRUNC and could
\* not write in full
Truncated == <<"truncated">>

\* processSelectedLayer, lines 882-890: WriteFile writes the file, or
\* MkdirAll or the open of WriteFile fails, or WriteFile fails after it has
\* created or truncated the file
T_Write(key) ==
    /\ mainPC # "exited"
    /\ key \in DOMAIN tasks
    /\ tasks[key].pc = "write"
    /\ \/ /\ files' = put(files, tasks[key].outputPath, key)
          /\ goroutineEnds(key, tasks[key], <<>>)
       \/ /\ UNCHANGED files
          /\ goroutineEnds(key, tasks[key], <<"failed to write output file">>)
       \/ /\ files' = put(files, tasks[key].outputPath, Truncated)
          /\ goroutineEnds(key, tasks[key], <<"failed to write output file">>)
    /\ UNCHANGED <<inputURL, flags, layersToProcess, mainPC, processedKeys, exitStatus,
                   summary>>

\* main after the dispatch loop, lines 389-404
M_Summary ==
    /\ mainPC = "dispatch"
    /\ DOMAIN layersToProcess \subseteq processedKeys
    /\ waitReturns(wg)
    /\ summary' = <<successCount, skippedCount, errorCount>>
    /\ exitStatus' = exitStatusOf(errorCount)
    /\ mainPC' = "exited"
    /\ UNCHANGED <<inputURL, flags, layersToProcess, processedKeys, wg, tasks,
                   successCount, skippedCount, errorCount, files>>

Next ==
    /\ \/ M_Discover
       \/ \E key \in DOMAIN layersToProcess : M_Launch(key)
       \/ \E key \in processedKeys : T_Prepare(key)
       \/ \E key \in processedKeys : T_Stat(key)
       \/ \E key \in processedKeys : T_Write(key)
       \/ M_Summary
    /\ UNCHANGED <<urlVars, fetchVars, selectVars, convVars, moreVars>>

Spec == RunInit /\ [][Next]_vars

\* a step of the dispatch loop or of one of its goroutines
Dispatching ==
    \/ \E key \in processedKeys : T_Write(key)
    \/ \E key \in processedKeys : T_Stat(key)
    \/ \E key \in processedKeys : T_Prepare(key)
    \/ \E key \in DOMAIN layersToProcess : M_Launch(key)

\* the scheduler runs the loop and the goroutines, and every request is
\* answered or times out
FairSpec == Spec /\ WF_runVars(Dispatching)

-----------------------------------------------------------------------------
(* Properties of a run *)

\* C2: in every state of a run, two different entries of the work set, and
\* two different tasks of the dispatch loop, are for different layers: they
\* differ in the service (the service URL without its trailing slashes) or in
\* the layer ID, whatever routes of discovery put the entries there.
C2_OneTaskPerLayer ==
    LET layerOf(key) == <<TrimRight(layersToProcess[key].ServiceURL, "/"),
                          layersToProcess[key].ID>>
    IN /\ \A k1, k2 \in DOMAIN layersToProcess : k1 # k2 => layerOf(k1) # layerOf(k2)
       /\ \A k1, k2 \in DOMAIN tasks : k1 # k2 => layerOf(k1) # layerOf(k2)

\* C6: once the summary is printed, the exit status is zero exactly when no
\* selected layer's task ended Failed; tasks that ended skipped, for an
\* existing file or for having no features, leave it at zero.
C6_ExitZeroIffNoFailure ==
    (mainPC = "exited" /\ summary # <<>>) =>
        (exitStatus = 0 <=>
            \A key \in DOMAIN layersToProcess :
                key \in DOMAIN tasks /\ tasks[key].outcome # "failed")

\* a run of two layers, one skipped for its existing file and one skipped
\* for having no features, has printed its summary and ends with status zero
C6_Witness ==
    /\ mainPC = "exited" /\ summary = <<0, 2, 0>> /\ exitStatus = 0
    /\ flags.skipExisting
    /\ \E k1, k2 \in DOMAIN tasks :
          /\ tasks[k1].outcome = "skipped" /\ tasks[k1].emptyQuery
          /\ tasks[k2].outcome = "skipped" /\ ~tasks[k2].emptyQuery
          /\ tasks[k2].outputPath \in DOMAIN files

\* C7: in every state each counter holds the number of tasks that have
\* recorded that outcome, and when the summary is printed every layer of the
\* work set has a task that has recorded its outcome and called wg.Done, so
\* the three numbers of the summary add up to the size of the work set.
C7_SummaryCountsEveryTask ==
    /\ successCount = Cardinality({k \in DOMAIN tasks : tasks[k].outcome = "success"})
    /\ skippedCount = Cardinality({k \in DOMAIN tasks : tasks[k].outcome = "skipped"})
    /\ errorCount = Cardinality({k \in DOMAIN tasks : tasks[k].outcome = "failed"})
    /\ summary # <<>> =>
          /\ \A key \in DOMAIN layersToProcess :
                key \in DOMAIN tasks /\ tasks[key].pc = "done"
          /\ summary = <<successCount, skippedCount, errorCount>>
          /\ summary[1] + summary[2] + summary[3] = Cardinality(DOMAIN layersToProcess)

\* the summary of a run of two layers, one succeeded and one failed
C7_Witness ==
    /\ summary = <<1, 0, 1>>
    /\ Cardinality(DOMAIN layersToProcess) = 2
    /\ \A key \in DOMAIN tasks : tasks[key].pc = "done"

\* C8: whatever the other tasks do, every layer of the work set gets a task
\* and that task comes to its end with one of the three outcomes; an outcome,
\* once recorded, is never changed.
C8_EveryTaskEnds ==
    /\ [](mainPC = "dispatch"
          => <>(\A key \in DOMAIN layersToProcess :
                   /\ key \in DOMAIN tasks
                   /\ tasks[key].pc = "done"
                   /\ tasks[key].outcome \in {"success", "skipped", "failed"}))
    /\ [][\A key \in DOMAIN tasks :
             tasks[key].outcome # "none" => tasks'[key].outcome = tasks[key].outcome]_vars

\* one task has failed and another, of the same run, has succeeded after it
\* with its file written
C8_Witness ==
    /\ mainPC = "exited"
    /\ \E k1, k2 \in DOMAIN tasks :
          /\ tasks[k1].outcome = "failed" /\ tasks[k1].pc = "done"
          /\ tasks[k2].outcome = "success" /\ tasks[k2].pc = "done"
          /\ tasks[k2].outputPath \in DOMAIN files /\ files[tasks[k2].outputPath] = k2

\* C9: a task whose feature query was answered with zero features and no
\* transfer-limit flag records the outcome skipped, never failed, writes no
\* file, and a run whose other tasks did not fail ends with status zero.
C9_NoFeaturesIsSkipped ==
    /\ \A key \in DOMAIN tasks :
          tasks[key].emptyQuery =>
             /\ tasks[key].outcome = "skipped"
             /\ tasks[key].pc = "done"
             /\ \A p \in DOMAIN files : files[p] # key
    /\ (/\ summary # <<>>
        /\ \A key \in DOMAIN tasks : ~tasks[key].emptyQuery => tasks[key].outcome # "failed")
       => (exitStatus = 0 /\ errorCount = 0
           /\ skippedCount >= Cardinality({k \in DOMAIN tasks : tasks[k].emptyQuery}))

\* the only layer of a run had no features: it is counted as skipped, the
\* output directory is as it was and the run has ended with status zero
C9_Witness ==
    /\ mainPC = "exited" /\ summary = <<0, 1, 0>> /\ exitStatus = 0
    /\ \E key \in DOMAIN tasks : tasks[key].emptyQuery /\ tasks[key].outcome = "skipped"
    /\ files = <<>>

\* C10: without -overwrite no step of a task changes the content of a file
\* that exists in the output directory, whether the file was there before
\* the run or was written earlier in the run by another task.
C10_NoReplaceWithoutOverwrite ==
    [][~flags.overwrite =>
          \A p \in DOMAIN files : p \in DOMAIN files' /\ files'[p] = files[p]]_vars

\* the steps of a run in which the task of key acts after os.Stat has found
\* its output file
actsOnFoundFile(key) ==
    /\ key \in DOMAIN tasks /\ key \in DOMAIN tasks'
    /\ tasks'[key] # tasks[key]
    /\ tasks'[key].stat = "found"

\* C11 as written: a task whose os.Stat found the output file ends skipped
\* under -skip-existing (also with -overwrite), failed without either flag,
\* and with success under -overwrite alone.
C11_ExistingFileOutcome ==
    \A key \in DOMAIN tasks :
        (tasks[key].pc = "done" /\ tasks[key].stat = "found") =>
            tasks[key].outcome = IF flags.skipExisting THEN "skipped"
                                 ELSE IF ~flags.overwrite THEN "failed"
                                 ELSE "success"

\* C11 amended: when os.Stat finds the output file, the task ends skipped
\* under -skip-existing (also with -overwrite) and failed without either
\* flag, and in both cases its step leaves every file as it was; under
\* -overwrite alone the task goes on to the write, which either replaces the
\* file by the payload of the task and ends with success, or fails and ends
\* failed, with the file as it was or truncated.
C11_ExistingFilePolicy ==
    [][\A key \in DOMAIN tasks :
          actsOnFoundFile(key) =>
             IF flags.skipExisting
             THEN /\ tasks'[key].pc = "done" /\ tasks'[key].outcome = "skipped"
                  /\ files' = files
             ELSE IF ~flags.overwrite
             THEN /\ tasks'[key].pc = "done" /\ tasks'[key].outcome = "failed"
                  /\ files' = files
             ELSE \/ /\ tasks[key].pc = "stat" /\ tasks'[key].pc = "write"
                     /\ files' = files
                  \/ /\ tasks[key].pc = "write" /\ tasks'[key].pc = "done"
                     /\ tasks'[key].outcome = "success"
                     /\ files' = put(files, tasks[key].outputPath, key)
                  \/ /\ tasks[key].pc = "write" /\ tasks'[key].pc = "done"
                     /\ tasks'[key].outcome = "failed"
                     /\ files' \in {files, put(files, tasks[key].outputPath, Truncated)}]_vars

\* with both flags set the task of a layer whose file was in the output
\* directory has ended skipped and the file holds what it held before the run
C11_Witness ==
    /\ flags.skipExisting /\ flags.overwrite
    /\ \E key \in DOMAIN tasks :
          /\ tasks[key].pc = "done" /\ tasks[key].stat = "found"
          /\ tasks[key].outcome = "skipped"
          /\ tasks[key].outputPath \in DOMAIN files
          /\ files[tasks[key].outputPath] = OldContent

-----------------------------------------------------------------------------
(* pkg/convert: decoded JSON values                                         *)
(*                                                                          *)
(* encoding/json decodes a geometry into interface{} values: nil, float64,  *)
(* string, []interface{} and map[string]interface{}.  Every value carries   *)
(* its dynamic type in the field t, so that a type assertion is a test of   *)
(* that field.  A float64 is held as a whole number of Ulp units; "%.10f"   *)
(* keeps ten decimals, so two different floats can print as the same text.  *)

MaxPoints == 2        \* vertices of one ring or path
MaxRings == 2         \* rings of one polygon, paths of one polyline

UlpsPerDigit == 10    \* float64 units (1e-11) in the last digit "%.10f" prints

null == [t |-> "null"]

num(n) == [t |-> "num", v |-> n]

str(text) == [t |-> "str", v |-> text]

arr(items) == [t |-> "arr", items |-> items]

obj(fields) == [t |-> "obj", fields |-> fields]

isFloat64(value) == value.t = "num"

isArray(value) == value.t = "arr"

isMap(value) == value.t = "obj"

hasKey(m, key) == key \in DOMAIN m.fields

\* fmt's "%.10f" of one float64: rounded to the nearest tenth decimal
format10(n) == (n + (UlpsPerDigit \div 2)) \div UlpsPerDigit

\* "%.10f %.10f" of a coordinate pair
formatPoint(xy) == <<format10(xy[1]), format10(xy[2])>>

isValidPoint(p) ==
    /\ isArray(p)
    /\ Len(p.items) >= 2
    /\ isFloat64(p.items[1])
    /\ isFloat64(p.items[2])

\* the inner loop over a ring or path: the coordinate pairs of the points
\* that are arrays of at least two numbers, in order
validVertices(ringCoords) ==
    LET kept == SelectSeq(ringCoords.items, isValidPoint)
    IN  [i \in 1..Len(kept) |-> <<kept[i].items[1].v, kept[i].items[2].v>>]

mapSeq(Op(_), q) == [i \in 1..Len(q) |-> Op(q[i])]

-----------------------------------------------------------------------------
(* pkg/convert: ConvertToGeoJSON's geometry and geometryToWKT               *)

NoGeometry == [type |-> "none"]

EmptyWKT == [kind |-> "", body |-> <<>>]

\* convert.go 84-86: a ring with points whose ends differ as floats gets a
\* copy of its first point
closeRing(singleRing) ==
    IF /\ Len(singleRing) > 0
       /\ \/ singleRing[1][1] # singleRing[Len(singleRing)][1]
          \/ singleRing[1][2] # singleRing[Len(singleRing)][2]
    THEN Append(singleRing, singleRing[1])
    ELSE singleRing

geoJSONRing(r) == closeRing(validVertices(r))

\* convert.go 25-96: geoJSONFeature.Geometry for one feature
geoJSONGeometry(featureGeometry) ==
    IF ~isMap(featureGeometry) THEN NoGeometry
    ELSE IF hasKey(featureGeometry, "x")
    THEN IF /\ hasKey(featureGeometry, "y")
            /\ isFloat64(featureGeometry.fields["x"])
            /\ isFloat64(featureGeometry.fields["y"])
         THEN [type |-> "Point",
               coordinates |-> <<featureGeometry.fields["x"].v, featureGeometry.fields["y"].v>>]
         ELSE NoGeometry
    ELSE IF hasKey(featureGeometry, "paths")
    THEN LET pathArray == featureGeometry.fields["paths"]
         IN  IF isArray(pathArray) /\ Len(pathArray.items) > 0 /\ isArray(pathArray.items[1])
             THEN [type |-> "LineString", coordinates |-> validVertices(pathArray.items[1])]
             ELSE NoGeometry
    ELSE IF hasKey(featureGeometry, "rings")
    THEN LET ringArray == featureGeometry.fields["rings"]
         IN  IF isArray(ringArray) /\ Len(ringArray.items) > 0
             THEN [type |-> "Polygon",
                   coordinates |-> mapSeq(geoJSONRing, SelectSeq(ringArray.items, isArray))]
             ELSE NoGeometry
    ELSE NoGeometry

\* convert.go 311-314: the texts of a ring's points, closed when the first
\* and the last text differ
closeText(points) ==
    IF points[1] # points[Len(points)] THEN Append(points, points[1]) ELSE points

ringTexts(r) == mapSeq(formatPoint, validVertices(r))

hasPoints(r) == isArray(r) /\ Len(validVertices(r)) > 0

wktRing(r) == closeText(ringTexts(r))

\* convert.go 253-327.  The returned string is held by its parts: the keyword
\* and the texts between the parentheses; EmptyWKT is "".
geometryToWKT(featureGeometry) ==
    IF ~isMap(featureGeometry) THEN EmptyWKT
    ELSE IF hasKey(featureGeometry, "x")
    THEN IF /\ hasKey(featureGeometry, "y")
            /\ isFloat64(featureGeometry.fields["x"])
            /\ isFloat64(featureGeometry.fields["y"])
         THEN [kind |-> "POINT",
               body |-> formatPoint(<<featureGeometry.fields["x"].v,
                                      featureGeometry.fields["y"].v>>)]
         ELSE EmptyWKT
    ELSE IF hasKey(featureGeometry, "paths")
    THEN LET pathArray == featureGeometry.fields["paths"]
         IN  IF isArray(pathArray) /\ Len(pathArray.items) > 0 /\ isArray(pathArray.items[1])
             THEN IF Len(validVertices(pathArray.items[1])) = 0 THEN EmptyWKT
                  ELSE [kind |-> "LINESTRING", body |-> ringTexts(pathArray.items[1])]
             ELSE EmptyWKT
    ELSE IF hasKey(featureGeometry, "rings")
    THEN LET ringArray == featureGeometry.fields["rings"]
         IN  IF isArray(ringArray) /\ Len(ringArray.items) > 0
             THEN LET polygonRings == mapSeq(wktRing, SelectSeq(ringArray.items, hasPoints))
                  IN  IF Len(polygonRings) = 0 THEN EmptyWKT
                      ELSE [kind |-> "POLYGON", body |-> polygonRings]
             ELSE EmptyWKT
    ELSE EmptyWKT

\* convert.go 12-124: the Features of the collection, one for every feature
\* of the input that got a geometry, with the attributes as properties
RECURSIVE ConvertToGeoJSON(_)
ConvertToGeoJSON(list) ==
    IF list = <<>> THEN <<>>
    ELSE LET feature == Head(list)
             made == geoJSONGeometry(feature.Geometry)
         IN  IF made # NoGeometry
             THEN <<[Type |-> "Feature", Geometry |-> made, Properties |-> feature.Attributes]>>
                      \o ConvertToGeoJSON(Tail(list))
             ELSE ConvertToGeoJSON(Tail(list))

-----------------------------------------------------------------------------
(* The geometries given to the two functions *)

PA == arr(<<num(0), num(0)>>)

PAnear == arr(<<num(1), num(0)>>)       \* one unit from PA: prints as PA does

PB == arr(<<num(20), num(20)>>)

NotAPoint == str("p")                   \* a vertex that is no array

ShortPoint == arr(<<num(0)>>)           \* a vertex with one coordinate

BadX == arr(<<str("a"), num(0)>>)       \* a vertex whose x is no number

BadY == arr(<<num(0), str("b")>>)       \* a vertex whose y is no number

\* the vertices of one rings array: a valid point and one other kind
PointAlphabets ==
    {{PA, PB}, {PA, PAnear}, {PA, NotAPoint}, {PA, ShortPoint}, {PB, BadX}, {PB, BadY}}

\* the vertices of one paths array
PathAlphabets == {{PA, PB}, {PB, NotAPoint}}

\* the rings (or paths) of up to maxPoints vertices, and a ring that is no array
RingsOver(alphabet, maxPoints) ==
    {arr(q) : q \in SeqsUpTo(alphabet, maxPoints)} \cup {str("ring")}

\* the arrays of up to maxRings rings (or paths)
ArraysOver(alphabets, maxPoints, maxRings) ==
    UNION {{arr(q) : q \in SeqsUpTo(RingsOver(alphabet, maxPoints), maxRings)} :
              alphabet \in alphabets}

Scalars == {num(0), num(20), str("a"), null}

PointObjects ==
    {obj([x |-> vx, y |-> vy]) : vx \in Scalars, vy \in Scalars}
        \cup {obj([x |-> vx]) : vx \in Scalars}
        \cup {obj([y |-> vy]) : vy \in Scalars}
        \cup {obj([x |-> vx, paths |-> arr(<<arr(<<PA, PB>>)>>)]) : vx \in Scalars}
        \cup {obj([x |-> vx, rings |-> arr(<<arr(<<PA, PB>>)>>)]) : vx \in Scalars}

Geometries(maxPoints, maxRings) ==
    {null, str("geometry"), arr(<<>>), obj(<<>>)}
        \cup PointObjects
        \cup {obj([paths |-> a]) :
                 a \in ArraysOver(PathAlphabets, maxPoints, maxRings) \cup {str("paths"), null}}
        \cup {obj([rings |-> a]) :
                 a \in ArraysOver(PointAlphabets, maxPoints, maxRings) \cup {str("rings"), null}}
        \cup {obj([paths |-> arr(<<>>), rings |-> arr(<<arr(<<PA, PB>>)>>)])}

featureOf(g) == [Geometry |-> g, Attributes |-> <<>>]

GeomInit ==
    /\ geometry \in Geometries(MaxPoints, MaxRings)
    /\ converted = <<>>
    /\ gpc = "wkt"
    /\ UrlIdle /\ FetchIdle /\ SelectIdle /\ RunIdle /\ ExportIdle /\ QueryIdle
    /\ MoreIdle

\* the CSV and text exports ask geometryToWKT for the feature's geometry
G_ToWKT ==
    /\ gpc = "wkt"
    /\ converted' = [wkt |-> geometryToWKT(geometry)]
    /\ gpc' = "geojson"
    /\ UNCHANGED geometry

\* the GeoJSON export of the same feature
G_ToGeoJSON ==
    /\ gpc = "geojson"
    /\ converted' = [wkt |-> converted.wkt,
                     collection |-> ConvertToGeoJSON(<<featureOf(geometry)>>)]
    /\ gpc' = "done"
    /\ UNCHANGED geometry

GeomNext ==
    /\ G_ToWKT \/ G_ToGeoJSON
    /\ UNCHANGED <<urlVars, fetchVars, selectVars, runVars, exportVars, queryVars, moreVars>>

SpecGeom == GeomInit /\ [][GeomNext]_vars

-----------------------------------------------------------------------------
(* Properties of the two geometry functions *)

isClosedRing(ring) == Len(ring) > 0 /\ ring[1] = ring[Len(ring)]

madePolygons ==
    {converted.collection[i].Geometry.coordinates : i \in
        {j \in 1..Len(converted.collection) :
            converted.collection[j].Geometry.type = "Polygon"}}

\* C12: every ring of a polygon produced by ConvertToGeoJSON, and every ring
\* of a POLYGON text produced by geometryToWKT, has a first point and a last
\* point and the two are identical, whatever the rings array was.
C12_RingsClosed ==
    gpc = "done" =>
        /\ \A coordinates \in madePolygons :
               \A i \in 1..Len(coordinates) : isClosedRing(coordinates[i])
        /\ converted.wkt.kind = "POLYGON" =>
               \A i \in 1..Len(converted.wkt.body) : isClosedRing(converted.wkt.body[i])

isPointObject(g) ==
    /\ isMap(g)
    /\ hasKey(g, "x") \/ hasKey(g, "y")
    /\ ~hasKey(g, "paths") /\ ~hasKey(g, "rings")

isNumberAt(g, key) == hasKey(g, key) /\ isFloat64(g.fields[key])

noValidVertex(r) == ~isArray(r) \/ validVertices(r) = <<>>

\* the geometries C13 speaks of
isMalformed(g) ==
    \/ ~isMap(g)
    \/ isPointObject(g) /\ ~(isNumberAt(g, "x") /\ isNumberAt(g, "y"))
    \/ /\ isMap(g) /\ ~hasKey(g, "x") /\ hasKey(g, "paths")
       /\ isArray(g.fields["paths"])
       /\ \/ g.fields["paths"].items = <<>>
          \/ noValidVertex(g.fields["paths"].items[1])
    \/ /\ isMap(g) /\ ~hasKey(g, "x") /\ ~hasKey(g, "paths") /\ hasKey(g, "rings")
       /\ isArray(g.fields["rings"])
       /\ \A i \in 1..Len(g.fields["rings"].items) :
              noValidVertex(g.fields["rings"].items[i])

\* C13: for a geometry that is nil, no object, a point without a numeric x
\* and y, an empty paths or rings array, or a first path or a set of rings
\* without any valid vertex, geometryToWKT returns "" and ConvertToGeoJSON
\* leaves the feature out of the collection.
C13_MalformedHasNoGeometry ==
    (gpc = "done" /\ isMalformed(geometry)) =>
        /\ converted.wkt = EmptyWKT
        /\ converted.collection = <<>>

\* the geometryToWKT half of C13 on its own
C13_MalformedHasNoWKT ==
    (gpc = "done" /\ isMalformed(geometry)) => converted.wkt = EmptyWKT

isRingsGeometry(g) ==
    /\ isMap(g) /\ ~hasKey(g, "x") /\ ~hasKey(g, "paths") /\ hasKey(g, "rings")
    /\ isArray(g.fields["rings"])
    /\ g.fields["rings"].items # <<>>

\* the rings of the input that have a valid vertex, in input order
ringsWithVertices(g) == SelectSeq(g.fields["rings"].items, hasPoints)

startsWith(q, prefix) ==
    Len(q) >= Len(prefix) /\ SubSeq(q, 1, Len(prefix)) = prefix

\* C19: of a rings array, ConvertToGeoJSON and geometryToWKT both output
\* exactly the rings that have a valid vertex, in input order, never an empty
\* ring; when no ring has a valid vertex both treat the polygon as no
\* geometry.
C19_EmptyRingsDropped ==
    (gpc = "done" /\ isRingsGeometry(geometry)) =>
        LET kept == ringsWithVertices(geometry)
        IN  IF kept = <<>>
            THEN converted.wkt = EmptyWKT /\ converted.collection = <<>>
            ELSE /\ converted.wkt.kind = "POLYGON"
                 /\ Len(converted.wkt.body) = Len(kept)
                 /\ \A i \in 1..Len(kept) :
                        startsWith(converted.wkt.body[i], ringTexts(kept[i]))
                 /\ Len(converted.collection) = 1
                 /\ converted.collection[1].Geometry.type = "Polygon"
                 /\ Len(converted.collection[1].Geometry.coordinates) = Len(kept)
                 /\ \A i \in 1..Len(kept) :
                        startsWith(converted.collection[1].Geometry.coordinates[i],
                                   validVertices(kept[i]))

-----------------------------------------------------------------------------
(* pkg/convert: ConvertFeaturesToCSV and ConvertFeaturesToText              *)
(*                                                                          *)
(* A text is held like a WKT text: text(<<>>) is "" and equals EmptyWKT.    *)
(* The CSV is held by the records given to csv.Writer.Write, the text       *)
(* export by its blocks.                                                    *)

MaxExported == 2      \* features given to the three converters

text(tokens) == [kind |-> "", body |-> tokens]

\* fmt's "%v" of an attribute value
sprintV(value) ==
    CASE value.t = "num" -> text(<<Itoa(value.v)>>)
      [] value.t = "str" -> IF value.v = "" THEN text(<<>>) ELSE text(<<value.v>>)
      [] OTHER -> text(<<"<nil>">>)

\* the attribute keys of the model in byte order, as sort.Strings puts them
HeaderOrder == <<"WKT_Geometry", "id", "name">>

sortStrings(K) == SelectSeq(HeaderOrder, LAMBDA k : k \in K)

attributeKeys(list) == UNION {DOMAIN list[i].Attributes : i \in 1..Len(list)}

\* convert.go 158-169: the row of one feature under the headers
csvRow(feature, headers) ==
    [i \in 1..Len(headers) |->
        IF headers[i] = "WKT_Geometry" THEN geometryToWKT(feature.Geometry)
        ELSE IF /\ headers[i] \in DOMAIN feature.Attributes
                /\ feature.Attributes[headers[i]] # null
             THEN sprintV(feature.Attributes[headers[i]])
             ELSE text(<<>>)]

NoRecords == [header |-> <<>>, rows |-> <<>>]

\* convert.go 128-181
ConvertFeaturesToCSV(list) ==
    IF Len(list) = 0 THEN NoRecords
    ELSE LET headers == Append(sortStrings(attributeKeys(list)), "WKT_Geometry")
         IN  [header |-> headers,
              rows |-> [i \in 1..Len(list) |-> csvRow(list[i], headers)]]

NoGeometryMarker == text(<<"<No Geometry>">>)

\* convert.go 196-217: the block of feature number n
textBlock(feature, n) ==
    LET keys == sortStrings(DOMAIN feature.Attributes)
        wkt == geometryToWKT(feature.Geometry)
    IN  [number |-> n,
         attributes |-> [i \in 1..Len(keys) |->
                            <<keys[i], sprintV(feature.Attributes[keys[i]])>>],
         geometry |-> IF wkt = EmptyWKT THEN NoGeometryMarker ELSE wkt]

\* convert.go 184-221
ConvertFeaturesToText(list) ==
    IF Len(list) = 0
    THEN [err |-> "no features to convert to text", blocks |-> <<>>]
    ELSE [err |-> "", blocks |-> [i \in 1..Len(list) |-> textBlock(list[i], i)]]

-----------------------------------------------------------------------------
(* The feature lists given to the three converters *)

ExportGeometries ==
    {null,
     obj([x |-> num(0), y |-> num(20)]),
     obj([paths |-> arr(<<arr(<<>>)>>)]),
     obj([paths |-> arr(<<arr(<<PA, PB>>)>>)]),
     obj([rings |-> arr(<<arr(<<PA, PB>>)>>)])}

AttributeMaps ==
    {<<>>,
     [id |-> num(7)],
     [id |-> null, name |-> str("x")],
     [name |-> str("")],
     [WKT_Geometry |-> str("x")]}

ExportFeatures ==
    {[Geometry |-> g, Attributes |-> a] : g \in ExportGeometries, a \in AttributeMaps}

ExportInit ==
    /\ inputFeatures \in SeqsUpTo(ExportFeatures, MaxExported)
    /\ exported = <<>>
    /\ epc = "geojson"
    /\ UrlIdle /\ FetchIdle /\ SelectIdle /\ RunIdle /\ GeomIdle /\ QueryIdle
    /\ MoreIdle

E_ToGeoJSON ==
    /\ epc = "geojson"
    /\ exported' = [collection |-> ConvertToGeoJSON(inputFeatures)]
    /\ epc' = "csv"
    /\ UNCHANGED inputFeatures

E_ToCSV ==
    /\ epc = "csv"
    /\ exported' = [collection |-> exported.collection,
                    csv |-> ConvertFeaturesToCSV(inputFeatures)]
    /\ epc' = "txt"
    /\ UNCHANGED inputFeatures

E_ToText ==
    /\ epc = "txt"
    /\ exported' = [collection |-> exported.collection, csv |-> exported.csv,
                    txt |-> ConvertFeaturesToText(inputFeatures)]
    /\ epc' = "done"
    /\ UNCHANGED inputFeatures

ExportNext ==
    /\ E_ToGeoJSON \/ E_ToCSV \/ E_ToText
    /\ UNCHANGED <<urlVars, fetchVars, selectVars, runVars, geomVars, queryVars, moreVars>>

SpecExport == ExportInit /\ [][ExportNext]_vars

-----------------------------------------------------------------------------
(* Properties of the three converters *)

wktCell(i) == exported.csv.rows[i][Len(exported.csv.header)]

hasNoWKT(i) ==
    /\ wktCell(i) = text(<<>>)
    /\ exported.txt.blocks[i].geometry = NoGeometryMarker

\* the input features that the CSV and text exports show with a geometry
shownWithGeometry ==
    LET kept == {i \in 1..Len(inputFeatures) : ~hasNoWKT(i)}
        nth[n \in 0..Len(inputFeatures)] ==
            IF n = 0 THEN <<>>
            ELSE IF n \in kept THEN Append(nth[n - 1], inputFeatures[n])
            ELSE nth[n - 1]
    IN  nth[Len(inputFeatures)]

\* C14: the CSV and the text export hold one row and one block for every
\* input feature, and the GeoJSON collection holds, in input order, exactly
\* the features whose WKT cell is not empty and whose text block does not
\* carry the "<No Geometry>" marker.
C14_LeftOutIffNoWKT ==
    epc = "done" =>
        /\ Len(exported.csv.rows) = Len(inputFeatures)
        /\ Len(exported.txt.blocks) = Len(inputFeatures)
        /\ \A i \in 1..Len(inputFeatures) :
               wktCell(i) = text(<<>>) <=> exported.txt.blocks[i].geometry = NoGeometryMarker
        /\ Len(exported.collection) = Len(shownWithGeometry)
        /\ \A i \in 1..Len(exported.collection) :
               exported.collection[i].Properties = shownWithGeometry[i].Attributes

isAscending(keys) ==
    \A i, j \in 1..Len(keys) :
        i < j => \E a, b \in 1..Len(HeaderOrder) :
                     a < b /\ HeaderOrder[a] = keys[i] /\ HeaderOrder[b] = keys[j]

\* C15: for a non-empty feature list the CSV header is the distinct attribute
\* keys of all features in ascending order followed by one WKT_Geometry
\* column; there is one row per feature in input order, every row is as long
\* as the header, and the cell of an attribute column is "" when the feature
\* lacks the key or holds null for it.
C15_CSVHeaderAndRows ==
    (epc = "done" /\ inputFeatures # <<>>) =>
        LET header == exported.csv.header
            rows == exported.csv.rows
            keys == SubSeq(header, 1, Len(header) - 1)
        IN  /\ Len(header) = Cardinality(attributeKeys(inputFeatures)) + 1
            /\ {keys[j] : j \in 1..Len(keys)} = attributeKeys(inputFeatures)
            /\ isAscending(keys)
            /\ header[Len(header)] = "WKT_Geometry"
            /\ Len(rows) = Len(inputFeatures)
            /\ \A i \in 1..Len(rows) :
                   /\ Len(rows[i]) = Len(header)
                   /\ rows[i][Len(header)] = geometryToWKT(inputFeatures[i].Geometry)
                   /\ \A j \in 1..Len(keys) :
                          (\/ keys[j] \notin DOMAIN inputFeatures[i].Attributes
                           \/ inputFeatures[i].Attributes[keys[j]] = null)
                              => rows[i][j] = text(<<>>)

-----------------------------------------------------------------------------
(* Properties of NormalizeArcGISURL, continued *)

\* the last path segment that is not empty, <<>> when there is none
lastNonEmptySegment(path) ==
    LET filled == SelectSeq(Split(path, "/"), LAMBDA part : part # <<>>)
    IN  IF filled = <<>> THEN <<>> ELSE filled[Len(filled)]

namesBaseService(part) ==
    ToLower(part) = <<"featureserver">> \/ ToLower(part) = <<"mapserver">>

-----------------------------------------------------------------------------
(* Properties of a run, continued *)

succeeded == {key \in DOMAIN tasks : tasks[key].outcome = "success"}

\* C17: when the run has ended, the layers that ended with success have
\* pairwise different output paths, and the file at the path of each of them
\* holds that layer's own payload.
C17_OneFilePerSuccess ==
    mainPC = "exited" =>
        /\ \A k1, k2 \in succeeded :
               k1 # k2 => tasks[k1].outputPath # tasks[k2].outputPath
        /\ \A key \in succeeded :
               /\ tasks[key].outputPath \in DOMAIN files
               /\ files[tasks[key].outputPath] = key

-----------------------------------------------------------------------------
(* main.go: the symbols of processSelectedLayer (lines 714-799)             *)
(*                                                                          *)
(* A symbol is [face, URL]: face stands for the fields that the code copies *)
(* and never changes (type, image data, size), URL is rewritten to the path *)
(* of the saved file when -save-symbols is set and saveSymbol succeeds.     *)
(* The content type is empty, so getSymbolFileExtension gives ".png".       *)

NoSymbol == [face |-> "", URL |-> <<>>]

symbolValue(symbol) == [t |-> "symbol", v |-> symbol]

\* lines 727-738 and 755-772: the copy of a symbol, with the relative path
\* of its file when it was saved; failing holds the symbols whose saveSymbol
\* returns an error
symbolCopy(symbol, symbolFilenameBase, saveSymbols, failing) ==
    IF saveSymbols /\ symbol.face \notin failing
    THEN [symbol EXCEPT !.URL = <<"symbols", "/", "L", "/">> \o symbolFilenameBase \o <<".png">>]
    ELSE symbol

setAttribute(attributes, key, value) ==
    [k \in DOMAIN attributes \cup {key} |-> IF k = key THEN value ELSE attributes[k]]

\* lines 739-744: every feature gets the copy of the default symbol
assignDefaultSymbol(list, defaultSymbolCopy) ==
    [i \in 1..Len(list) |->
        [list[i] EXCEPT !.Attributes =
            setAttribute(list[i].Attributes, "symbol", symbolValue(defaultSymbolCopy))]]

\* fmt.Sprintf("%v", fieldValue) as a Go string
valueString(value) ==
    CASE value.t = "num" -> Itoa(value.v)
      [] value.t = "str" -> value.v
      [] OTHER -> "<nil>"

\* the classes of all groups, in order
RECURSIVE classesOf(_)
classesOf(groups) ==
    IF groups = <<>> THEN <<>> ELSE Head(groups).Classes \o classesOf(Tail(groups))

\* lines 773-778: the first value of every value set of a class is mapped
RECURSIVE mapValues(_, _, _)
mapValues(symbolMap, values, classSymbolCopy) ==
    IF values = <<>> THEN symbolMap
    ELSE mapValues(IF Len(Head(values)) > 0
                   THEN setAttribute(symbolMap, Head(values)[1], classSymbolCopy)
                   ELSE symbolMap,
                   Tail(values), classSymbolCopy)

\* lines 750-781: symbolMap, a later class replacing an earlier one
RECURSIVE buildSymbolMap(_, _, _, _)
buildSymbolMap(symbolMap, classes, saveSymbols, failing) ==
    IF classes = <<>> THEN symbolMap
    ELSE LET class == Head(classes)
         IN  buildSymbolMap(
                 IF class.Symbol # NoSymbol
                 THEN mapValues(symbolMap, class.Values,
                                symbolCopy(class.Symbol, <<"class_", class.Label>>,
                                           saveSymbols, failing))
                 ELSE symbolMap,
                 Tail(classes), saveSymbols, failing)

\* a lookup that does not test whether the feature has a symbol already
lookupSymbolAlways(attributes, field1, symbolMap) ==
    IF /\ field1 \in DOMAIN attributes
       /\ attributes[field1] # null
       /\ valueString(attributes[field1]) \in DOMAIN symbolMap
    THEN setAttribute(attributes, "symbol",
                      symbolValue(symbolMap[valueString(attributes[field1])]))
    ELSE attributes

\* lines 784-797: the attributes of one feature after the lookup
lookupSymbol(attributes, field1, symbolMap) ==
    IF "symbol" \in DOMAIN attributes THEN attributes
    ELSE IF /\ field1 \in DOMAIN attributes
            /\ attributes[field1] # null
            /\ valueString(attributes[field1]) \in DOMAIN symbolMap
    THEN setAttribute(attributes, "symbol",
                      symbolValue(symbolMap[valueString(attributes[field1])]))
    ELSE attributes

assignClassSymbols(list, field1, symbolMap) ==
    [i \in 1..Len(list) |->
        [list[i] EXCEPT !.Attributes = lookupSymbol(list[i].Attributes, field1, symbolMap)]]

\* lines 714-799: the features with their symbols
resolveSymbols(list, info, failing) ==
    IF info.excludeSymbols \/ ~info.hasRenderer THEN list
    ELSE LET renderer == info.renderer
             withDefault ==
                 IF renderer.DefaultSymbol # NoSymbol
                 THEN assignDefaultSymbol(list,
                          symbolCopy(renderer.DefaultSymbol, <<"default">>,
                                     info.saveSymbols, failing))
                 ELSE list
         IN  IF /\ renderer.Type = "uniqueValue"
                /\ renderer.Field1 # ""
                /\ Len(renderer.UniqueValueGroups) > 0
             THEN assignClassSymbols(withDefault, renderer.Field1,
                      buildSymbolMap(<<>>, classesOf(renderer.UniqueValueGroups),
                                     info.saveSymbols, failing))
             ELSE withDefault

-----------------------------------------------------------------------------
(* The feature query of one layer and the symbols of its features *)

DefaultSymbol == [face |-> "D", URL |-> <<"http", "D">>]

SymbolOne == [face |-> "S1", URL |-> <<"http", "S1">>]

SymbolTwo == [face |-> "S2", URL |-> <<"http", "S2">>]

Faces == {"D", "S1", "S2"}

classA == [Label |-> "A", Symbol |-> SymbolOne, Values |-> <<<<"a">>>>]

classSeven == [Label |-> "seven", Symbol |-> SymbolTwo, Values |-> <<<<>>, <<"7", "x">>>>]

classAgain == [Label |-> "again", Symbol |-> SymbolTwo, Values |-> <<<<"a">>>>]

classBare == [Label |-> "bare", Symbol |-> NoSymbol, Values |-> <<<<"z">>>>]

GroupLists ==
    {<<>>,
     <<[Classes |-> <<classA, classSeven>>]>>,
     <<[Classes |-> <<classA>>], [Classes |-> <<classBare, classAgain>>]>>}

Renderers ==
    {[DefaultSymbol |-> d, Type |-> t, Field1 |-> f, UniqueValueGroups |-> g] :
        d \in {NoSymbol, DefaultSymbol}, t \in {"simple", "uniqueValue"},
        f \in {"", "kind"}, g \in GroupLists}

Drawings ==
    {[hasRenderer |-> FALSE, renderer |-> <<>>, excludeSymbols |-> e, saveSymbols |-> v] :
        e \in BOOLEAN, v \in BOOLEAN}
    \cup {[hasRenderer |-> TRUE, renderer |-> r, excludeSymbols |-> e, saveSymbols |-> v] :
             r \in Renderers, e \in BOOLEAN, v \in BOOLEAN}

QueryAttributes ==
    {<<>>,
     [kind |-> str("a")],
     [kind |-> str("z")],
     [kind |-> null],
     [kind |-> num(7)],
     [kind |-> str("a"), symbol |-> str("own")]}

QueryFeatures == {[Geometry |-> null, Attributes |-> a] : a \in QueryAttributes}

QueryInit ==
    /\ queryReply \in FeatureReplies
    /\ queryFeatures \in {q \in SeqsUpTo(QueryFeatures, MaxFeatures) :
                              Len(q) = queryReply.features}
    /\ drawing \in Drawings
    /\ resolved = <<>>
    /\ qpc = "fetch"
    /\ UrlIdle /\ FetchIdle /\ SelectIdle /\ RunIdle /\ GeomIdle /\ ExportIdle
    /\ MoreIdle

\* main.go 694-702: processSelectedLayer asks FetchFeatures for the features
Q_Fetch ==
    /\ qpc = "fetch"
    /\ LET r == FetchFeatures(queryReply, "0")
       IN  /\ resolved' = [fetch |-> r, err |-> r.err, features |-> <<>>]
           /\ qpc' = IF r.err = <<>> THEN "symbols" ELSE "done"
    /\ UNCHANGED <<queryReply, queryFeatures, drawing>>

\* main.go 705-799: the symbols directory, then the symbols of the features
Q_Symbols ==
    /\ qpc = "symbols"
    /\ \/ /\ drawing.saveSymbols
          /\ resolved' = [resolved EXCEPT !.err = <<"failed to create symbols directory">>]
       \/ \E failing \in IF drawing.saveSymbols THEN SUBSET Faces ELSE {{}} :
              resolved' = [resolved EXCEPT
                              !.features = resolveSymbols(queryFeatures, drawing, failing)]
    /\ qpc' = "done"
    /\ UNCHANGED <<queryReply, queryFeatures, drawing>>

QueryNext ==
    /\ Q_Fetch \/ Q_Symbols
    /\ UNCHANGED <<urlVars, fetchVars, selectVars, runVars, geomVars, exportVars, moreVars>>

SpecQuery == QueryInit /\ [][QueryNext]_vars

-----------------------------------------------------------------------------
(* Properties of the feature query and of the symbols *)

isResponse(reply) == reply.status = "ok" /\ ~reply.hasError

\* C18: for a response with zero features FetchFeatures returns the "no
\* features found" error, also when exceededTransferLimit is set; for a
\* response with the flag set and at least one feature it returns the
\* features without an error.
C18_EmptyResultIsError ==
    (qpc # "fetch" /\ isResponse(queryReply)) =>
        /\ queryReply.features = 0 => Contains(resolved.fetch.err, <<"no features found">>)
        /\ (queryReply.exceededTransferLimit /\ queryReply.features > 0) =>
               /\ resolved.fetch.err = <<>>
               /\ resolved.fetch.features = queryReply.features

symbolsResolved ==
    /\ qpc = "done" /\ resolved.fetch.err = <<>> /\ resolved.err = <<>>
    /\ ~drawing.excludeSymbols /\ drawing.hasRenderer

isCopyOf(value, symbol) == value.t = "symbol" /\ value.v.face = symbol.face

\* the attribute values for which the renderer has a class with a symbol
mappedValues(renderer) ==
    LET classes == classesOf(renderer.UniqueValueGroups)
    IN  UNION {{classes[c].Values[j][1] :
                   j \in {k \in 1..Len(classes[c].Values) : Len(classes[c].Values[k]) > 0}} :
               c \in {d \in 1..Len(classes) : classes[d].Symbol # NoSymbol}}

classSymbols(renderer) ==
    LET classes == classesOf(renderer.UniqueValueGroups)
    IN  {classes[c].Symbol : c \in 1..Len(classes)} \ {NoSymbol}

findsClass(attributes, renderer) ==
    /\ renderer.Field1 \in DOMAIN attributes
    /\ attributes[renderer.Field1] # null
    /\ valueString(attributes[renderer.Field1]) \in mappedValues(renderer)

\* C20: with symbols enabled and a default symbol in the renderer, every
\* feature carries the default symbol after the resolution, also under a
\* unique-value renderer with a class for the feature's field value; a class
\* symbol is only on features that had no symbol, from the server or from
\* the default, and a feature without symbol whose lookup finds no class is
\* left without one.
C20_DefaultSymbolWins ==
    symbolsResolved =>
        \A i \in 1..Len(queryFeatures) :
            LET before == queryFeatures[i].Attributes
                after == resolved.features[i].Attributes
                renderer == drawing.renderer
            IN  /\ renderer.DefaultSymbol # NoSymbol =>
                       /\ "symbol" \in DOMAIN after
                       /\ isCopyOf(after["symbol"], renderer.DefaultSymbol)
                /\ ("symbol" \in DOMAIN after
                        /\ \E class \in classSymbols(renderer) : isCopyOf(after["symbol"], class))
                       => ("symbol" \notin DOMAIN before /\ renderer.DefaultSymbol = NoSymbol)
                /\ (/\ renderer.DefaultSymbol = NoSymbol
                    /\ "symbol" \notin DOMAIN before
                    /\ ~findsClass(before, renderer))
                       => "symbol" \notin DOMAIN after

\* under a unique-value renderer that has a default symbol and a class for
\* the value "a", a feature whose field holds "a" carries the default symbol
C20_Witness ==
    /\ symbolsResolved
    /\ drawing.renderer.DefaultSymbol # NoSymbol
    /\ drawing.renderer.Type = "uniqueValue"
    /\ Len(queryFeatures) > 0
    /\ queryFeatures[1].Attributes = [kind |-> str("a")]
    /\ findsClass(queryFeatures[1].Attributes, drawing.renderer)
    /\ resolved.features[1].Attributes["symbol"] = symbolValue(DefaultSymbol)

-----------------------------------------------------------------------------
(* The walk of handleWebMap over trees of operational layers: the nodes of  *)
(* a run, below up to MaxDepth nested groups.                               *)

MaxDepth == 3         \* groups nested above the nodes of a web map

Leaves == {node \in Nodes : node.LayerType # "GroupLayer"}

groupTitle(d) == <<"Group", Itoa(d)>>

\* the list of nodes below d nested groups
RECURSIVE nest(_, _)
nest(d, layers) ==
    IF d = 0 THEN layers
    ELSE <<OperationalLayer(groupTitle(d), "GroupLayer", <<>>, "", nest(d - 1, layers), 0)>>

WalkServers ==
    {[rootItem |-> ItemReply("Web Map", <<>>),
      webMap |-> [status |-> "ok", apiError |-> FALSE, operationalLayers |-> <<>>],
      refItem |-> rf, mapServer |-> ms,
      featureServer |-> [status |-> "ok", doc |-> FeatureServerDocument]] :
        rf \in RefItemReplies,
        ms \in {FailedResponse, [status |-> "ok", doc |-> MapServerDocument]}}

WalkInit ==
    /\ webMap \in {nest(d, layers) : d \in 0..MaxDepth, layers \in SeqsUpTo(Leaves, MaxNodes)}
    /\ servers \in WalkServers
    /\ walked = <<>>
    /\ wpc = "start"
    /\ UrlIdle /\ FetchIdle /\ SelectIdle /\ RunAndConvIdle /\ KmlIdle

\* the servers with the web map of this walk
serving(w, operationalLayers) ==
    [w EXCEPT !.webMap = [status |-> "ok", apiError |-> FALSE,
                          operationalLayers |-> operationalLayers]]

\* handleWebMap up to the call of selectAndAddLayers
W_Walk ==
    /\ wpc = "start"
    /\ walked' = handleWebMap(serving(servers, webMap), "abc")
    /\ wpc' = "done"
    /\ UNCHANGED <<webMap, servers>>

WalkNext ==
    /\ W_Walk
    /\ UNCHANGED <<urlVars, fetchVars, selectVars, runVars, convVars, kmlVars>>

SpecWalk == WalkInit /\ [][WalkNext]_vars

-----------------------------------------------------------------------------
(* Properties of the web map walk *)

\* the nodes that are no groups, in the order of the walk, each with the
\* titles of its ancestors from the root down
RECURSIVE leavesOf(_, _)
leavesOf(layers, ancestors) ==
    IF layers = <<>> THEN <<>>
    ELSE LET node == Head(layers)
         IN  (IF node.LayerType = "GroupLayer" \/ Len(node.Layers) > 0
              THEN leavesOf(node.Layers, Append(ancestors, node.Title))
              ELSE <<[node |-> node, ancestors |-> ancestors]>>)
             \o leavesOf(Tail(layers), ancestors)

\* how many descriptors a node gives when it is walked on its own
emits(node) ==
    Len(processOperationalLayer(serving(servers, webMap), node, nilSlice,
                                [available |-> <<>>, mem |-> <<>>, panic |-> FALSE]).available)

\* the descriptors of the i-th leaf in the result of the walk, with the
\* parent path read through the memory the walk left
descriptorsOf(i) ==
    LET leaves == leavesOf(webMap, <<>>)
        before[n \in 0..Len(leaves)] ==
            IF n = 0 THEN 0 ELSE before[n - 1] + emits(leaves[n].node)
        own == SubSeq(walked.available, before[i - 1] + 1, before[i])
    IN  [j \in 1..Len(own) |->
            [own[j] EXCEPT !.ParentPath = sliceValue(walked.mem, @)]]

hasServiceURL(node) ==
    /\ node.FeatureCollection = 0
    /\ node.URL # <<>>
    /\ containsFeatureServer(node.URL) \/ containsMapServer(node.URL)

isLayerReference(node) ==
    hasServiceURL(node) /\ isLayerNumber(lastPart(NormalizeArcGISURL(node.URL)))

\* C23: a node whose service URL ends with a layer number gives exactly one
\* descriptor: the service URL is the normalised URL without its last
\* segment, the ID is that segment, the name is the title of the node and
\* the parent path is the titles of the ancestors of the node, without the
\* title of the node itself.
C23_LayerReferenceDescriptor ==
    (wpc = "done" /\ ~walked.panic) =>
        LET leaves == leavesOf(webMap, <<>>)
        IN  \A i \in 1..Len(leaves) :
                isLayerReference(leaves[i].node) =>
                    LET u == NormalizeArcGISURL(leaves[i].node.URL)
                        made == descriptorsOf(i)
                    IN  /\ Len(made) = 1
                        /\ made[1].ServiceURL = withoutLastPart(u)
                        /\ made[1].ID = lastPart(u)[1]
                        /\ made[1].Name = leaves[i].node.Title
                        /\ made[1].ParentPath = leaves[i].ancestors

\* C24: every descriptor of a node with a service URL has as parent path the
\* titles from the root down to that node, whatever was walked after it.
C24_PathOfServiceReference ==
    (wpc = "done" /\ ~walked.panic) =>
        LET leaves == leavesOf(webMap, <<>>)
        IN  \A i \in 1..Len(leaves) :
                hasServiceURL(leaves[i].node) =>
                    \A j \in 1..Len(descriptorsOf(i)) :
                        descriptorsOf(i)[j].ParentPath =
                            Append(leaves[i].ancestors, leaves[i].node.Title)

\* the nodes the walk has nothing to take from: an inline feature
\* collection, a node without URL, item or collection, a service whose
\* metadata request fails, an item reference that cannot be resolved
isItemReference(node) ==
    /\ node.FeatureCollection = 0
    /\ ~hasServiceURL(node)
    /\ node.ItemID # ""

serviceFails(w, u) == FetchServiceLayers(replyOf(w, u), <<>>, u, serviceTypeOf(u)).err

contributesNothing(w, node) ==
    \/ node.FeatureCollection > 0
    \/ node.FeatureCollection = 0 /\ ~hasServiceURL(node) /\ node.ItemID = ""
    \/ /\ hasServiceURL(node)
       /\ ~isLayerReference(node)
       /\ serviceFails(w, NormalizeArcGISURL(node.URL))
    \/ /\ isItemReference(node)
       /\ LET itemData == HandleArcGISOnlineItem(w.refItem, itemPageURL(node.ItemID))
          IN  \/ itemData.err
              \/ itemData.URL = <<>>
              \/ ~(containsFeatureServer(itemData.URL) \/ containsMapServer(itemData.URL))
              \/ serviceFails(w, itemData.URL)

\* the tree without the nodes that have nothing to take
RECURSIVE withoutBarren(_, _)
withoutBarren(w, layers) ==
    IF layers = <<>> THEN <<>>
    ELSE LET node == Head(layers)
         IN  (IF node.LayerType = "GroupLayer" \/ Len(node.Layers) > 0
              THEN <<[node EXCEPT !.Layers = withoutBarren(w, node.Layers)]>>
              ELSE IF contributesNothing(w, node) THEN <<>> ELSE <<node>>)
             \o withoutBarren(w, Tail(layers))

\* the descriptors a walk has left, each with its parent path read out
descriptorsLeft(d) ==
    [j \in 1..Len(d.available) |->
        [d.available[j] EXCEPT !.ParentPath = sliceValue(d.mem, @)]]

hasBarrenLeaf ==
    \E i \in 1..Len(leavesOf(webMap, <<>>)) :
        contributesNothing(servers, leavesOf(webMap, <<>>)[i].node)

\* C28: a node with nothing to take (inline collection, empty node, failed
\* service metadata, unresolvable item reference) adds no descriptor and
\* changes none: the walk ends without an error and leaves the descriptors
\* of the same web map with those nodes taken out.
C28_BarrenNodesAreSkipped ==
    (wpc = "done" /\ hasBarrenLeaf) =>
        /\ ~walked.err
        /\ ~walked.panic
        /\ descriptorsLeft(walked) =
               descriptorsLeft(handleWebMap(
                   serving(servers, withoutBarren(servers, webMap)), "abc"))

\* the part of C28 that holds: when the walk ends, every node with nothing
\* to take has added no descriptor
C28_BarrenNodesAddNothing ==
    (wpc = "done" /\ ~walked.panic) =>
        \A i \in 1..Len(leavesOf(webMap, <<>>)) :
            contributesNothing(servers, leavesOf(webMap, <<>>)[i].node) =>
                Len(descriptorsOf(i)) = 0

-----------------------------------------------------------------------------
(* Properties of the discovery of a run *)

\* main, lines 305-329 with the handlers they call: the service metadata
\* requests (FetchServiceLayers) the handler of a service or layer URL issues
metadataRequests(url) ==
    IF containsMapServer(url) THEN 1
    ELSE IF containsFeatureServer(url)
    THEN IF isLayerNumber(lastPart(url)) THEN 0 ELSE 1
    ELSE 0

endsInLayerNumber(raw) ==
    /\ validatedInput(raw).ok
    /\ ~IsArcGISOnlineItemURL(validatedInput(raw).url)
    /\ isLayerNumber(lastPart(validatedInput(raw).url))

\* C26: for an input URL that ends with a layer number the discovery puts
\* exactly one entry in the work set and asks for no service metadata.
C26_LayerURLIsOneWorkItem ==
    (mainPC # "start" /\ endsInLayerNumber(inputURL)) =>
        /\ Cardinality(DOMAIN layersToProcess) = 1
        /\ metadataRequests(validatedInput(inputURL).url) = 0

\* the part of C26 that holds: a layer URL that does not name a MapServer
C26_OtherLayerURLIsOneWorkItem ==
    (/\ mainPC # "start"
     /\ endsInLayerNumber(inputURL)
     /\ ~containsMapServer(validatedInput(inputURL).url)) =>
        /\ Cardinality(DOMAIN layersToProcess) = 1
        /\ metadataRequests(validatedInput(inputURL).url) = 0

-----------------------------------------------------------------------------
(* Properties of the interactive selection *)

\* the 1-based indices of the candidates the operator's line names: i is
\* named when one of the comma-separated parts, trimmed, is the numeral of i
namedIndices(line, n) ==
    {i \in 1..n : \E j \in 1..Len(Split(line, ",")) :
                      Trim(Split(line, ",")[j], " ") = <<Itoa(i)>>}

isCommaList(line) == ToLower(Trim(line, " ")) # <<"all">>

\* C27: an interactive answer that is a comma-separated list adds exactly the
\* candidates at the indices it names between 1 and the number of
\* candidates: every such candidate is in the work set under its key, every
\* other key keeps what it held, and parts that name no candidate neither
\* add an entry nor keep the named ones out.
C27_CommaListAddsNamedCandidates ==
    [][(spc = "start" /\ spc' = "done" /\ isCommaList(operatorInput)) =>
          LET named == namedIndices(Trim(operatorInput, " "), Len(candidates))
              keys == {uniqueKey(candidates[i]) : i \in named}
          IN  /\ DOMAIN workAsked' = DOMAIN workAsked \cup keys
              /\ \A k \in keys :
                     workAsked'[k] \in {candidates[i] : i \in
                                           {n \in named : uniqueKey(candidates[n]) = k}}
              /\ \A k \in DOMAIN workAsked \ keys : workAsked'[k] = workAsked[k]]_vars

\* the operator typed "1,7,x" on two candidates with an empty prior work
\* set: the first candidate alone is in the work set
C27_Witness ==
    /\ spc = "done"
    /\ operatorInput = <<"1", ",", "7", ",", "x">>
    /\ Len(candidates) = 2
    /\ DOMAIN workAsked = {uniqueKey(candidates[1])}
    /\ workAsked[uniqueKey(candidates[1])] = candidates[1]
    /\ uniqueKey(candidates[2]) # uniqueKey(candidates[1])

-----------------------------------------------------------------------------
(* Forest driver: FetchServiceLayers on MapServer documents whose layers    *)
(* form a forest through parentLayerId.  Layer i is the i-th declared; its  *)
(* parent is -1 or one of the MaxSpan layers declared before it.  A layer   *)
(* with sublayers is a Group Layer, a layer without is a Feature Layer.     *)

MaxForest == 7        \* layers of a forest document
MaxSpan == 3          \* how far before a layer its parent is declared

ForestNames == <<"Base", "Roads", "Rivers", "Lakes", "Parks", "Trails", "Wells", "Signs">>

\* the parentLayerId of the layers 0..n-1
RECURSIVE ParentVectors(_, _)
ParentVectors(n, span) ==
    IF n = 0 THEN {<<>>}
    ELSE {Append(v, parent) :
             v \in ParentVectors(n - 1, span),
             parent \in {-1} \cup {q \in 0..(n - 2) : q >= n - 1 - span}}

forestLayers(parents) ==
    [i \in 1..Len(parents) |->
        [id |-> [kind |-> "number", val |-> i - 1],
         name |-> ForestNames[i],
         type |-> IF \E c \in 1..Len(parents) : parents[c] = i - 1
                  THEN "Group Layer" ELSE "Feature Layer",
         parentLayerId |-> parents[i]]]

reversed(q) == [i \in 1..Len(q) |-> q[Len(q) + 1 - i]]

Forests(maxForest, maxSpan) ==
    UNION {{forestLayers(v), reversed(forestLayers(v))} :
              v \in UNION {ParentVectors(n, maxSpan) : n \in 1..maxForest}}

ForestInit ==
    /\ response \in {[status |-> "ok", doc |-> [layers |-> l, tables |-> <<>>,
                                                  error |-> FALSE]] :
                        l \in Forests(MaxForest, MaxSpan)}
    /\ serviceType = "MapServer"
    /\ fetched = <<>>
    /\ fpc = "start"
    /\ UrlIdle /\ SelectIdle /\ RunAndConvIdle
    /\ MoreIdle

SpecForest == ForestInit /\ [][FetchNext]_vars

\* the names of the ancestors of a layer of a forest, root first
RECURSIVE ancestorNames(_, _)
ancestorNames(layerMap, id) ==
    IF layerMap[id].ParentLayerId = -1 THEN <<>>
    ELSE Append(ancestorNames(layerMap, layerMap[id].ParentLayerId),
                layerMap[layerMap[id].ParentLayerId].Name)

declaredLayer(id) ==
    LET l == response.doc.layers
    IN  l[CHOOSE i \in 1..Len(l) : Itoa(l[i].id.val) = id]

\* C25: on a MapServer document whose layers form a forest, the parent path
\* of every returned descriptor is the names of the ancestors of its layer,
\* from the root down to the immediate parent.
C25_ParentPathIsAncestors ==
    (fpc = "done" /\ ~fetched.err) =>
        \A j \in 1..Len(fetched.layers) :
            sliceValue(fetched.mem, fetched.layers[j].ParentPath) =
                ancestorNames(layerMapOf(FetchAndDecodeMapServer(response).Layers),
                              declaredLayer(fetched.layers[j].ID).id.val)

\* the part of C25 that holds: forests of at most four levels
RECURSIVE levelOf(_, _)
levelOf(layerMap, id) ==
    IF layerMap[id].ParentLayerId = -1 THEN 1
    ELSE 1 + levelOf(layerMap, layerMap[id].ParentLayerId)

C25_ShallowParentPathIsAncestors ==
    (fpc = "done" /\ ~fetched.err) =>
        LET layerMap == layerMapOf(FetchAndDecodeMapServer(response).Layers)
        IN  (\A id \in DOMAIN layerMap : levelOf(layerMap, id) <= 4) =>
                \A j \in 1..Len(fetched.layers) :
                    sliceValue(fetched.mem, fetched.layers[j].ParentPath) =
                        ancestorNames(layerMap, declaredLayer(fetched.layers[j].ID).id.val)

-----------------------------------------------------------------------------
(* Properties of buildPath on documents that are no forest *)

featureLayerCount(layers) ==
    Cardinality({i \in 1..Len(layers) : layers[i].type = "Feature Layer"})

hasCycle(layers) ==
    \E i, j \in 1..Len(layers) :
        /\ layers[i].parentLayerId = layers[j].id.val
        /\ layers[j].parentLayerId = layers[i].id.val

hasUndeclaredParent(layers) ==
    \E i \in 1..Len(layers) :
        /\ layers[i].parentLayerId # -1
        /\ \A j \in 1..Len(layers) : layers[j].id.val # layers[i].parentLayerId

\* C29: on every MapServer document, with parentLayerId cycles or parents
\* that are not declared, every call of buildPath returns within as many
\* nested calls as there are layers plus one, and FetchServiceLayers returns
\* without error one descriptor for every Feature Layer.
C29_BuildPathReturns ==
    (fpc = "done" /\ serviceType = "MapServer" /\ response.status = "ok"
        /\ ~response.doc.error /\ allNumericIds(response.doc.layers))
    => /\ ~fetched.pending
       /\ ~fetched.err
       /\ Len(fetched.layers) = featureLayerCount(response.doc.layers)

\* two Feature Layers that name each other as parent were fetched
C29_Witness ==
    /\ fpc = "done" /\ serviceType = "MapServer" /\ response.status = "ok"
    /\ Len(response.doc.layers) = 2
    /\ response.doc.layers[1].id.val # response.doc.layers[2].id.val
    /\ hasCycle(response.doc.layers)
    /\ featureLayerCount(response.doc.layers) = 2
    /\ Len(fetched.layers) = 2
    /\ ~fetched.pending

\* a Feature Layer whose parent is not declared was fetched
C29_WitnessUndeclared ==
    /\ fpc = "done" /\ serviceType = "MapServer" /\ response.status = "ok"
    /\ hasUndeclaredParent(response.doc.layers)
    /\ featureLayerCount(response.doc.layers) = 1
    /\ Len(fetched.layers) = 1
    /\ sliceValue(fetched.mem, fetched.layers[1].ParentPath) = <<>>

-----------------------------------------------------------------------------
(* Properties of the output file of a task *)

\* the step in which the task of key ends at the given position
endsAt(key, pc) == tasks[key].pc = pc /\ tasks'[key].pc = "done"

\* C30: the output directory changes only in the last step of a task, the
\* step after the existing-file check, and only at the path of that task; a
\* task that ends in the requests or the encoding (metadata fetch, API error
\* payload, feature fetch, encoding, unsupported format) or in the
\* existing-file check leaves every file as it was; a task that has ended
\* takes no further step, so it writes at most once; and the existing-file
\* check is made only by a task whose requests and encoding have succeeded.
C30_WriteOnlyAsFinalStep ==
    [][/\ files' # files =>
             \E key \in DOMAIN tasks :
                 /\ endsAt(key, "write")
                 /\ DOMAIN files' = DOMAIN files \cup {tasks[key].outputPath}
                 /\ \A p \in DOMAIN files :
                        p # tasks[key].outputPath => files'[p] = files[p]
       /\ \A key \in DOMAIN tasks :
              /\ (endsAt(key, "prepare") \/ endsAt(key, "stat")) => files' = files
              /\ tasks[key].pc = "done" => tasks'[key] = tasks[key]
              /\ tasks'[key].stat # tasks[key].stat =>
                     /\ tasks[key].pc = "stat"
                     /\ tasks[key].outputPath # <<>>]_vars

\* a task has ended failed in the existing-file check, and the file it found
\* still holds what it held before the run
C30_Witness ==
    \E key \in DOMAIN tasks :
        /\ tasks[key].pc = "done"
        /\ tasks[key].outcome = "failed"
        /\ tasks[key].stat = "found"
        /\ tasks[key].outputPath \in DOMAIN files
        /\ files[tasks[key].outputPath] = OldContent

-----------------------------------------------------------------------------
(* pkg/export: ConvertGeoJSONToKML (kml.go) and ConvertGeoJSONToKMZ         *)
(*                                                                          *)
(* A feature is [Symbol, Properties, Geometry].  Symbol is the object the   *)
(* pointer field of the feature refers to, NilSymbol for a nil pointer;     *)
(* every feature has an object of its own.  Properties is a Go map from     *)
(* keys to JSON values.  Geometry is the map ConvertToGeoJSON makes,        *)
(* NoGeometry for nil.  An angle is a number of thousandths.  The           *)
(* description of a placemark and the XML escaping are left out; a KMZ      *)
(* archive is the document and the image files by name.                     *)

MaxKmlFeatures == 2   \* features of a collection handed to an encoder
MaxEncodings == 2     \* encoder calls on one collection

NilSymbol ==
    [isNil |-> TRUE, Type |-> "", URL |-> "", ImageData |-> "", ContentType |-> "",
     Width |-> 0, Height |-> 0, XOffset |-> 0, YOffset |-> 0, Angle |-> 0]

\* getString, getInt and getFloat on a map of JSON values
getString(m, key) == IF key \in DOMAIN m /\ m[key].t = "str" THEN m[key].v ELSE ""

getInt(m, key) == IF key \in DOMAIN m /\ m[key].t = "num" THEN m[key].v ELSE 0

getFloat(m, key) == IF key \in DOMAIN m /\ m[key].t = "num" THEN m[key].v ELSE 0

\* &convert.Symbol{...} filled from a symbol map
symbolFromMap(symbolMap) ==
    [isNil |-> FALSE,
     Type |-> getString(symbolMap, "type"),
     URL |-> getString(symbolMap, "url"),
     ImageData |-> getString(symbolMap, "imageData"),
     ContentType |-> getString(symbolMap, "contentType"),
     Width |-> getInt(symbolMap, "width"),
     Height |-> getInt(symbolMap, "height"),
     XOffset |-> getInt(symbolMap, "xoffset"),
     YOffset |-> getInt(symbolMap, "yoffset"),
     Angle |-> getFloat(symbolMap, "angle")]

\* "%.2f" of an angle: hundredths, rounded
format2(thousandths) == (thousandths + 5) \div 10

\* generateStyleID
generateStyleID(symbol) ==
    <<"style", symbol.Type, symbol.Width, symbol.Height, symbol.XOffset, symbol.YOffset,
      format2(symbol.Angle)>>

\* the style elements.  scale is in 32nds (16ths for a simple marker in a
\* KMZ); hotSpot is the two fractions as numerator and denominator
generatePictureMarkerStyle(symbol) ==
    [element |-> "IconStyle",
     scale |-> IF symbol.Width > 0 /\ symbol.Height > 0 THEN symbol.Width ELSE 32,
     heading |-> format2(symbol.Angle),
     href |-> symbol.URL,
     hotSpot |-> <<symbol.XOffset, symbol.Width, symbol.YOffset, symbol.Height>>]

generateSimpleLineStyle(symbol) ==
    [element |-> "LineStyle", width |-> IF symbol.Width > 0 THEN symbol.Width ELSE 2]

generateSimpleFillStyle(symbol) == [element |-> "PolyStyle"]

generateDefaultStyle == [element |-> "IconStyle", href |-> "placemark_circle.png"]

generateKMLStyle(symbol) ==
    CASE symbol.Type \in {"esriPMS", "esriSMS"} -> generatePictureMarkerStyle(symbol)
      [] symbol.Type = "esriSLS" -> generateSimpleLineStyle(symbol)
      [] symbol.Type = "esriSFS" -> generateSimpleFillStyle(symbol)
      [] OTHER -> generateDefaultStyle

generatePictureMarkerStyleForKMZ(symbol) ==
    [element |-> "IconStyle",
     href |-> IF symbol.URL = "" THEN "ylw-pushpin.png" ELSE symbol.URL,
     scale |-> IF symbol.Width > 0 THEN symbol.Width ELSE 32]

generateSimpleMarkerStyle(symbol) ==
    [element |-> "IconStyle", color |-> "ff0000ff",
     scale |-> IF symbol.Width > 0 THEN symbol.Width ELSE 16,
     href |-> "ylw-pushpin.png"]

generateKMLStyleForKMZ(symbol) ==
    CASE symbol.isNil -> generateDefaultStyle
      [] symbol.Type = "esriPMS" -> generatePictureMarkerStyleForKMZ(symbol)
      [] symbol.Type = "esriSMS" -> generateSimpleMarkerStyle(symbol)
      [] symbol.Type = "esriSLS" -> generateSimpleLineStyle(symbol)
      [] symbol.Type = "esriSFS" -> generateSimpleFillStyle(symbol)
      [] OTHER -> generateDefaultStyle

getImageExtension(contentType) ==
    CASE contentType = "image/jpeg" -> ".jpg"
      [] contentType = "image/gif" -> ".gif"
      [] contentType = "image/svg+xml" -> ".svg"
      [] OTHER -> ".png"

\* base64.StdEncoding.DecodeString succeeds on the image data
isBase64(imageData) == imageData # "%%"

\* the state of the first pass: the style map, the image files and their
\* counter (KMZ), the error that ends the call, and the features in memory
FirstPass(features) ==
    [styleMap |-> <<>>, imageFiles |-> <<>>, imageCounter |-> 0, err |-> FALSE,
     features |-> features]

\* the handling of an embedded image of a symbol whose style is new
\* (kml.go 42-46, kmz 167-181): [st, symbol]
embedImage(st, symbol, format) ==
    IF symbol.ImageData = "" THEN [st |-> st, symbol |-> symbol]
    ELSE IF format = "kml"
    THEN [st |-> st,
          symbol |-> [symbol EXCEPT !.URL = "data:" \o symbol.ContentType \o ";base64,"
                                             \o symbol.ImageData]]
    ELSE LET n == st.imageCounter + 1
             imageName == "images/symbol_" \o Itoa(n)
                              \o getImageExtension(symbol.ContentType)
         IN  IF ~isBase64(symbol.ImageData)
             THEN [st |-> [st EXCEPT !.imageCounter = n, !.err = TRUE], symbol |-> symbol]
             ELSE [st |-> [st EXCEPT !.imageCounter = n,
                                     !.imageFiles = (imageName :> symbol.ImageData) @@ @],
                   symbol |-> [symbol EXCEPT !.URL = imageName]]

\* the style of a symbol, added under its ID when the ID is new: [st, symbol]
addStyle(st, symbol, format) ==
    IF st.err \/ generateStyleID(symbol) \in DOMAIN st.styleMap
    THEN [st |-> st, symbol |-> symbol]
    ELSE LET e == embedImage(st, symbol, format)
             styleXML == IF format = "kml" THEN generateKMLStyle(e.symbol)
                         ELSE generateKMLStyleForKMZ(e.symbol)
         IN  IF e.st.err THEN e
             ELSE [st |-> [e.st EXCEPT !.styleMap =
                              (generateStyleID(symbol) :> styleXML) @@ @],
                   symbol |-> e.symbol]

\* the symbol maps of the classes of a uniqueValue renderer that hold the
\* value of the feature, in the order of the loops (kml.go 73-89)
RECURSIVE flatten(_)
flatten(qq) == IF qq = <<>> THEN <<>> ELSE Head(qq) \o flatten(Tail(qq))

classMatches(class, value) ==
    IF isMap(class) /\ hasKey(class, "values") /\ isArray(class.fields["values"])
    THEN LET values == class.fields["values"].items
             hits == SelectSeq(values, LAMBDA val : /\ isArray(val)
                                                    /\ Len(val.items) > 0
                                                    /\ val.items[1] = value)
         IN  IF hasKey(class, "symbol") /\ isMap(class.fields["symbol"])
             THEN [i \in 1..Len(hits) |-> class.fields["symbol"].fields]
             ELSE <<>>
    ELSE <<>>

groupMatches(group, value) ==
    IF isMap(group) /\ hasKey(group, "classes") /\ isArray(group.fields["classes"])
    THEN flatten([i \in 1..Len(group.fields["classes"].items) |->
                     classMatches(group.fields["classes"].items[i], value)])
    ELSE <<>>

rendererSymbols(properties) ==
    LET rendererMap == properties["renderer"]
    IN  IF /\ isMap(rendererMap)
           /\ hasKey(rendererMap, "type")
           /\ rendererMap.fields["type"] = str("uniqueValue")
           /\ hasKey(rendererMap, "field1")
           /\ rendererMap.fields["field1"].t = "str"
           /\ rendererMap.fields["field1"].v \in DOMAIN properties
           /\ hasKey(rendererMap, "uniqueValueGroups")
           /\ isArray(rendererMap.fields["uniqueValueGroups"])
        THEN LET groups == rendererMap.fields["uniqueValueGroups"].items
                 value == properties[rendererMap.fields["field1"].v]
             IN  flatten([i \in 1..Len(groups) |-> groupMatches(groups[i], value)])
        ELSE <<>>

RECURSIVE addStyles(_, _, _)
addStyles(st, symbolMaps, format) ==
    IF symbolMaps = <<>> THEN st
    ELSE addStyles(addStyle(st, symbolFromMap(Head(symbolMaps)), format).st,
                   Tail(symbolMaps), format)

\* one turn of the first loop (kml.go 36-134).  The loop variable is a copy
\* of the feature: what is written through its Symbol pointer stays in the
\* collection, an assignment to its Symbol field does not
collectStyle(st, i, format) ==
    LET feature == st.features[i]
    IN  IF ~feature.Symbol.isNil
        THEN LET r == addStyle(st, feature.Symbol, format)
             IN  [r.st EXCEPT !.features[i].Symbol = r.symbol]
        ELSE IF "symbol" \in DOMAIN feature.Properties
        THEN IF isMap(feature.Properties["symbol"])
             THEN addStyle(st, symbolFromMap(feature.Properties["symbol"].fields),
                           format).st
             ELSE st
        ELSE IF "renderer" \in DOMAIN feature.Properties
        THEN addStyles(st, rendererSymbols(feature.Properties), format)
        ELSE st

RECURSIVE collectStyles(_, _, _)
collectStyles(st, i, format) ==
    IF i > Len(st.features) \/ st.err THEN st
    ELSE collectStyles(collectStyle(st, i, format), i + 1, format)

\* getFeatureName
FeatureNameKeys == <<"name", "Name", "NAME", "title", "Title", "TITLE", "OBJECTID", "FID">>

getFeatureName(feature) ==
    LET found == SelectSeq(FeatureNameKeys,
                           LAMBDA key : /\ key \in DOMAIN feature.Properties
                                        /\ feature.Properties[key] # null)
    IN  IF found = <<>> THEN text(<<"Feature">>)
        ELSE sprintV(feature.Properties[found[1]])

\* the geometry element of a placemark, NoElement for the empty string
NoElement == [element |-> ""]

kmlCoordinates(c) == <<format10(c[1]), format10(c[2]), 0>>

geometryString(geom) ==
    CASE geom.type = "Point" ->
            IF Len(geom.coordinates) >= 2
            THEN [element |-> "Point", coordinates |-> kmlCoordinates(geom.coordinates)]
            ELSE NoElement
      [] geom.type = "LineString" ->
            IF Len(geom.coordinates) > 0
            THEN [element |-> "LineString",
                  coordinates |-> mapSeq(kmlCoordinates, geom.coordinates)]
            ELSE NoElement
      [] geom.type = "Polygon" ->
            IF Len(geom.coordinates) > 0
            THEN [element |-> "Polygon",
                  outerBoundaryIs |-> mapSeq(kmlCoordinates, geom.coordinates[1]),
                  innerBoundaryIs |->
                      [i \in 1..(Len(geom.coordinates) - 1) |->
                          mapSeq(kmlCoordinates, geom.coordinates[i + 1])]]
            ELSE NoElement
      [] OTHER -> NoElement

\* the second loop (kml.go 147-215): the placemarks, in feature order
RECURSIVE writePlacemarks(_)
writePlacemarks(features) ==
    IF features = <<>> THEN <<>>
    ELSE LET feature == Head(features)
         IN  (IF feature.Geometry = NoGeometry
                 \/ geometryString(feature.Geometry) = NoElement
              THEN <<>>
              ELSE <<[name |-> getFeatureName(feature),
                      styleUrl |-> IF ~feature.Symbol.isNil
                                   THEN <<generateStyleID(feature.Symbol)>> ELSE <<>>,
                      geometry |-> geometryString(feature.Geometry)]>>)
             \o writePlacemarks(Tail(features))

\* the styles in the order the range over styleMap visits them
writeStyles(styleMap, order) ==
    [k \in 1..Len(order) |-> [id |-> order[k], xml |-> styleMap[order[k]]]]

\* ConvertGeoJSONToKML: [err, doc, features], features being the collection
\* as the call leaves it
ConvertGeoJSONToKML(features, layerName, order) ==
    LET st == collectStyles(FirstPass(features), 1, "kml")
    IN  [err |-> FALSE,
         doc |-> [name |-> layerName,
                  styles |-> writeStyles(st.styleMap, order),
                  placemarks |-> writePlacemarks(st.features),
                  imageFiles |-> <<>>],
         features |-> st.features]

NoDocument == [name |-> "", styles |-> <<>>, placemarks |-> <<>>, imageFiles |-> <<>>]

\* ConvertGeoJSONToKMZ: [err, doc, features]
ConvertGeoJSONToKMZ(features, layerName, order) ==
    LET st == collectStyles(FirstPass(features), 1, "kmz")
    IN  IF st.err THEN [err |-> TRUE, doc |-> NoDocument, features |-> st.features]
        ELSE [err |-> FALSE,
              doc |-> [name |-> layerName,
                       styles |-> writeStyles(st.styleMap, order),
                       placemarks |-> writePlacemarks(st.features),
                       imageFiles |-> st.imageFiles],
              features |-> st.features]

\* the orders in which the range over the style map of a call may run
styleOrders(features, format) ==
    Orders(DOMAIN collectStyles(FirstPass(features), 1, format).styleMap)

-----------------------------------------------------------------------------
(* Encoder driver: a collection is encoded up to MaxEncodings times, to KML *)
(* or to KMZ, each call on the collection as the call before left it.       *)

KmlSymbol(type, imageData, width, angle) ==
    [isNil |-> FALSE, Type |-> type, URL |-> "http://h.com/pin.png",
     ImageData |-> imageData, ContentType |-> "image/png", Width |-> width,
     Height |-> width, XOffset |-> 0, YOffset |-> 0, Angle |-> angle]

KmlSymbols ==
    {KmlSymbol("esriPMS", "", 16, 0), KmlSymbol("esriPMS", "iVBOR", 16, 0),
     KmlSymbol("esriPMS", "", 16, 4), KmlSymbol("esriSLS", "", 2, 450),
     KmlSymbol("esriPMS", "%%", 32, 0)}

LineSymbolMap ==
    obj([type |-> str("esriSLS"), width |-> num(2), angle |-> num(450)])

UniqueValueRenderer ==
    obj([type |-> str("uniqueValue"), field1 |-> str("kind"),
         uniqueValueGroups |->
             arr(<<obj([classes |->
                           arr(<<obj([values |-> arr(<<arr(<<str("road")>>)>>),
                                      symbol |-> LineSymbolMap])>>)])>>)])

KmlProperties ==
    {[name |-> str("Main St")],
     [name |-> str("Main St"), symbol |-> LineSymbolMap],
     [OBJECTID |-> num(7), symbol |-> str("none")],
     [kind |-> str("road"), renderer |-> UniqueValueRenderer]}

KmlGeometries ==
    {NoGeometry,
     [type |-> "Point", coordinates |-> <<0, 20>>],
     [type |-> "LineString", coordinates |-> <<>>],
     [type |-> "Polygon", coordinates |-> <<<<<<0, 0>>, <<20, 0>>, <<0, 0>>>>>>]}

KmlFeatures ==
    {[Symbol |-> sy, Properties |-> [name |-> str("Main St")], Geometry |-> g] :
        sy \in KmlSymbols, g \in KmlGeometries}
    \cup {[Symbol |-> NilSymbol, Properties |-> pr, Geometry |-> g] :
             pr \in KmlProperties, g \in KmlGeometries}

KmlInit ==
    /\ geoJSON \in SeqsUpTo(KmlFeatures, MaxKmlFeatures)
    /\ documents = <<>>
    /\ kpc = "ready"
    /\ UrlIdle /\ FetchIdle /\ SelectIdle /\ RunAndConvIdle /\ WalkIdle

\* one call of an encoder on the collection in memory
encoded(format, input, r) ==
    [format |-> format, input |-> input, err |-> r.err, doc |-> r.doc]

K_ToKML ==
    /\ kpc = "ready"
    /\ Len(documents) < MaxEncodings
    /\ \E order \in styleOrders(geoJSON, "kml") :
          LET r == ConvertGeoJSONToKML(geoJSON, "Layer", order)
          IN  /\ documents' = Append(documents, encoded("kml", geoJSON, r))
              /\ geoJSON' = r.features
    /\ UNCHANGED kpc

K_ToKMZ ==
    /\ kpc = "ready"
    /\ Len(documents) < MaxEncodings
    /\ \E order \in styleOrders(geoJSON, "kmz") :
          LET r == ConvertGeoJSONToKMZ(geoJSON, "Layer", order)
          IN  /\ documents' = Append(documents, encoded("kmz", geoJSON, r))
              /\ geoJSON' = r.features
    /\ UNCHANGED kpc

KmlNext ==
    /\ K_ToKML \/ K_ToKMZ
    /\ UNCHANGED <<urlVars, fetchVars, selectVars, runVars, convVars, walkVars>>

SpecKml == KmlInit /\ [][KmlNext]_vars

-----------------------------------------------------------------------------
(* Properties of the KML and KMZ encoders *)

\* the collection as the k-th call left it
leftBy(k) == IF k = Len(documents) THEN geoJSON ELSE documents[k + 1].input

\* the documents a call of the encoder of the format may return for a
\* collection
freshDocuments(format, features) ==
    {IF format = "kml" THEN encoded(format, features,
                                    ConvertGeoJSONToKML(features, "Layer", order))
     ELSE encoded(format, features, ConvertGeoJSONToKMZ(features, "Layer", order)) :
        order \in styleOrders(features, format)}

\* C21: a call of ConvertGeoJSONToKML or ConvertGeoJSONToKMZ leaves the
\* collection as it was, every field of every symbol included, and what a
\* call returns for a collection that was encoded before is what it returns
\* for a fresh copy.
C21_InputUnchanged ==
    \A k \in 1..Len(documents) :
        /\ leftBy(k) = documents[1].input
        /\ [documents[k] EXCEPT !.input = documents[1].input]
               \in freshDocuments(documents[k].format, documents[1].input)

\* the part of C21 that holds: a later call returns what it returns for a
\* fresh copy
C21_SameOutputAsFresh ==
    \A k \in 1..Len(documents) :
        [documents[k] EXCEPT !.input = documents[1].input]
            \in freshDocuments(documents[k].format, documents[1].input)

\* the symbols of a feature: the one of its Symbol field, or else the one of
\* its "symbol" property, or else those its renderer gives for its value
symbolsOfFeature(feature) ==
    IF ~feature.Symbol.isNil THEN {feature.Symbol}
    ELSE IF "symbol" \in DOMAIN feature.Properties
    THEN IF isMap(feature.Properties["symbol"])
         THEN {symbolFromMap(feature.Properties["symbol"].fields)}
         ELSE {}
    ELSE IF "renderer" \in DOMAIN feature.Properties
    THEN {symbolFromMap(rendererSymbols(feature.Properties)[i]) :
             i \in 1..Len(rendererSymbols(feature.Properties))}
    ELSE {}

styleIDsOf(features) ==
    UNION {{generateStyleID(sy) : sy \in symbolsOfFeature(features[i])} :
              i \in 1..Len(features)}

isConvertible(geom) ==
    \/ geom.type = "Point" /\ Len(geom.coordinates) >= 2
    \/ geom.type \in {"LineString", "Polygon"} /\ Len(geom.coordinates) > 0

convertibles(features) ==
    SelectSeq(features, LAMBDA f : f.Geometry # NoGeometry /\ isConvertible(f.Geometry))

definedStyles(doc) == {doc.styles[i].id : i \in 1..Len(doc.styles)}

\* C22: a KML document has exactly one Style per style ID of the symbols of
\* the features, one Placemark per feature with a convertible geometry, in
\* feature order, and the Placemark of every such feature that has a symbol
\* carries a styleUrl that names a Style of the document.
C22_StylesAndPlacemarks ==
    \A k \in 1..Len(documents) :
        (documents[k].format = "kml" /\ ~documents[k].err) =>
            LET doc == documents[k].doc
                shown == convertibles(documents[k].input)
            IN  /\ definedStyles(doc) = styleIDsOf(documents[k].input)
                /\ Cardinality(definedStyles(doc)) = Len(doc.styles)
                /\ Len(doc.placemarks) = Len(shown)
                /\ \A i \in 1..Len(shown) :
                       /\ i <= Len(doc.placemarks)
                       /\ symbolsOfFeature(shown[i]) # {} =>
                              /\ doc.placemarks[i].styleUrl # <<>>
                              /\ doc.placemarks[i].styleUrl[1] \in definedStyles(doc)

\* the part of C22 that holds: collections whose symbols are all in the
\* Symbol field of their features, as ConvertToGeoJSON makes them
C22_OfSymbolFields ==
    \A k \in 1..Len(documents) :
        (/\ documents[k].format = "kml"
         /\ ~documents[k].err
         /\ \A i \in 1..Len(documents[k].input) :
                documents[k].input[i].Symbol.isNil =>
                    symbolsOfFeature(documents[k].input[i]) = {}) =>
            LET doc == documents[k].doc
                shown == convertibles(documents[k].input)
            IN  /\ definedStyles(doc) = styleIDsOf(documents[k].input)
                /\ Cardinality(definedStyles(doc)) = Len(doc.styles)
                /\ Len(doc.placemarks) = Len(shown)
                /\ \A i \in 1..Len(shown) :
                       symbolsOfFeature(shown[i]) # {} =>
                           /\ doc.placemarks[i].styleUrl # <<>>
                           /\ doc.placemarks[i].styleUrl[1] \in definedStyles(doc)

====
